---- MODULE Spec2Model ----
(***************************************************************************)
(* chatmail2mastodon: the polling engine of the bridge (util.py) and the   *)
(* command handlers that share the account store with it (hooks.py).       *)
(*                                                                         *)
(* One linked account with its home, notifications and one hashtag         *)
(* conversation is modelled.  The social-network server is the environment:*)
(* it holds the three timelines the poll thread fetches from.              *)
(***************************************************************************)
EXTENDS Integers, Sequences, FiniteSets, TLC

\* ------------------------------------------------------------------ bounds
\* Most items the server ever holds in the home timeline.
MaxHome == 3
\* Most entries the server ever holds in the notifications list.
MaxNotif == 2
\* Most statuses the server ever holds in the hashtag timelines.
MaxTagToots == 2
\* Most items a timeline ever holds in a run with fault injection.
MaxInjected == 2
\* The count of error messages to the principal stops growing here.
MaxNotices == 2
\* Most login attempts (/login commands and authorization codes) of a run.
MaxLogins == 3
\* Most writes the two threads make inside session_scope in a run.
MaxWrites == 3

\* --------------------------------------------------------------- constants
\* Python's None / SQL NULL for a cursor column (ids are 1, 2, ...).
None == 0
\* limit=100 of every timeline fetch of the poll thread.
Limit == 100
\* The notification types the mute flag suppresses.
MUTED_NOTIFICATIONS == {"reblog", "favourite", "follow"}
\* The feeds of the account, and the runs about failing checks, about
\* conversations and about logins.
Feeds == {"home", "notif", "tags"}
Focuses == Feeds \cup {"errors", "chats", "login"}
\* The accounts a sweep may find in the store: A is modelled in full, B is
\* another principal's account whose unit of work is one step.
Accounts == {"A", "B"}
\* The conversations bound to account A besides its direct-message ones, and
\* the ids the chat transport gives to the direct-message conversations.
BoundChats == {"home", "notif", "tags"}
DmChatIds == <<"dm1", "dm2">>
\* What may be wrong with A's server or credentials.
Troubles == {"unauthorized", "transient", "unexpected"}
\* The instances A's principal may log in to, and the remote identities
\* they may log in as.
Urls == {"X", "Y"}
Users == {"alice", "carol"}
\* The remote accounts A's principal may open a direct-message conversation
\* with.
Correspondents == {"bob", "dan"}
\* The poll thread and the thread that runs the handlers.
Threads == {"poll", "hooks"}
\* The feeds with a cursor column of their own, whose deliveries are recorded.
Tracked == {"home", "notif"}
\* The hashtags a conversation name may hold.
Tags == {"a", "b"}
\* A conversation name is kept as re.split(r'[ ,]+', name) cuts it: its
\* tokens, each a word with or without a leading '#'.
Hash(w) == [hash |-> TRUE, word |-> w]
Plain(w) == [hash |-> FALSE, word |-> w]
\* The names the hashtag conversation may have: "#a" and "#a #b", and after
\* a renaming "#a b" as well.
ChatNames == {<<Hash("a")>>, <<Hash("a"), Hash("b")>>}
PlainNames == {<<Hash("a"), Plain("b")>>}

\* ----------------------------------------------------------------- helpers
Range(s) == {s[i] : i \in DOMAIN s}

Reverse(s) == [i \in 1..Len(s) |-> s[Len(s) + 1 - i]]

IdsOf(s) == [i \in 1..Len(s) |-> s[i].id]

MaxOf(S) == CHOOSE x \in S : \A y \in S : y <= x

RECURSIVE Arrangements(_)
Arrangements(S) ==
    IF S = {} THEN {<<>>}
    ELSE UNION {{<<x>> \o p : p \in Arrangements(S \ {x})} : x \in S}

\* Every duplicate-free sequence over the elements of S, in every order.
AllOrders(S) == UNION {Arrangements(T) : T \in SUBSET S}

FirstN(s, n) == IF Len(s) <= n THEN s ELSE SubSeq(s, 1, n)

LastN(s, n) == IF Len(s) <= n THEN s ELSE SubSeq(s, Len(s) - n + 1, Len(s))

VARIABLES
    \* environment parameters, fixed by Init
    focus,          \* the feed that has traffic in this run
    faults,         \* TRUE: the social client may return any list of known items
    \* the social-network server
    home_tl,        \* home timeline, ascending by id
    notif_tl,       \* notifications, ascending by id
    tag_tl,         \* statuses carrying hashtags, ascending by id
    \* the chat transport
    chat_name,      \* tokens of the hashtag conversation's display name
    \* the account store (orm.py)
    last_home, last_notif, muted_home, muted_notif,
    hashtags_last,  \* Hashtags.last: tag -> last seen id
    dmchats,        \* DmChat rows of the account: [chat_id, contact]
    rows,           \* which of A's Account, Hashtags and OAuth rows exist
    \* the chat transport and the principal
    member,         \* the conversations of account A the bot is a member of
    notices,        \* messages sent to A's principal: logout and error reports
    leave_failed,   \* conversations whose leave_group raised in the teardown
    trouble,        \* what is wrong with A's server or credentials, or "none"
    \* the login state of A's principal
    ident,          \* the Account row's url, user and token, or NoIdent
    auth,           \* the OAuth row's url, user and client pair, or NoAuth
    clients,        \* the Client rows: per url, whether there is one and its pair
    apps,           \* per url, the applications registered with create_app
    logins,         \* the login attempts made so far
    \* session_scope, seen from two threads
    lock,           \* the holder of _lock, or "free"
    phase,          \* per thread, where it is in session_scope
    work,           \* per thread, the writes its open session holds
    db,             \* the writes committed to the database
    ended,          \* per thread, how its last session_scope ended
    nwrites,        \* the writes made so far
    \* the drain of _check_mastodon over several instances
    instances,      \* the dict of the sweep, in key order: url and its units
    round,          \* the keys the running `for key in list(...)` has left
    served,         \* the instances that got a unit in the running round
    processed,      \* the units the sweep has started, in order: account, outcome
    collected,      \* the accounts the sweep snapshotted
    \* the poll thread (util.py)
    pc,
    queue,          \* the units of work the sweep has not started yet
    snap,           \* the tuple snapshotted by _check_mastodon for the unit
    toots,          \* the raw response of the current check
    pending,        \* what the running generator / loop still has to yield
    sent,           \* what the current check has sent to its conversation
    failed_id,      \* the id of the item whose send_msg raised, or None
    writes,         \* store writes of the current unit of work
    tagq,           \* _check_hashtags: the tags still to fetch
    lasts,          \* _check_hashtags: the cursor map read from the store
    newlasts,       \* _check_hashtags: the cursor map being built
    resps,          \* _check_hashtags: tag -> the response fetched for it
    \* history
    delivered,      \* home, notif -> ids ever sent to the feed's conversation
    twice,          \* home, notif -> ids sent to the conversation more than once
    skipped,        \* home, notif -> ids fetched, committed and dropped undelivered
    seen,           \* home, notif, each tag -> newest id any response held
    contract_ok     \* every response so far was the page the API promises

vars == <<focus, faults, home_tl, notif_tl, tag_tl, chat_name,
          last_home, last_notif, muted_home, muted_notif, hashtags_last, dmchats,
          rows, member, notices, leave_failed, trouble,
          ident, auth, clients, apps, logins,
          lock, phase, work, db, ended, nwrites,
          instances, round, served, processed, collected,
          pc, queue, snap, toots, pending, sent, failed_id, writes,
          tagq, lasts, newlasts, resps,
          delivered, twice, skipped, seen, contract_ok>>

env_vars == <<focus, faults>>
server_vars == <<home_tl, notif_tl, tag_tl>>
store_vars == <<last_home, last_notif, muted_home, muted_notif, hashtags_last, dmchats>>
tag_vars == <<tagq, lasts, newlasts, resps>>
thread_vars == <<pc, queue, snap, toots, pending, sent, failed_id, writes, tag_vars>>
acct_vars == <<rows, member, notices, leave_failed, trouble>>
hook_vars == <<ident, auth, clients, apps, logins>>
scope_vars == <<lock, phase, work, db, ended, nwrites>>
drain_vars == <<instances, round, served, processed, collected>>
hist_vars == <<delivered, twice, skipped, seen, contract_ok>>

\* ------------------------------------------------------------ the server
\* The page the API promises for (min_id, limit): without min_id the newest
\* `limit` items, with min_id the `limit` items right after it; newest first.
ContractPage(tl, min_id, limit) ==
    LET newer == SelectSeq(tl, LAMBDA t : t.id > min_id)
    IN  Reverse(IF min_id = None THEN LastN(newer, limit) ELSE FirstN(newer, limit))

\* What a fetch may return: the promised page, or with fault injection any
\* duplicate-free list of items of the timeline (stale, reordered, partial).
Responses(tl, min_id) ==
    IF faults THEN AllOrders(Range(tl)) ELSE {ContractPage(tl, min_id, Limit)}

\* --------------------------------------------------------- history helpers
\* The record of what was sent and what was dropped is kept for as long as
\* every response honoured the API contract; what follows a broken response
\* is judged on the cursors alone.
SentAll(feed, ids) ==
    IF contract_ok
    THEN /\ delivered' = [delivered EXCEPT ![feed] = @ \cup ids]
         /\ twice' = [twice EXCEPT ![feed] = @ \cup (ids \cap delivered[feed])]
    ELSE UNCHANGED <<delivered, twice>>

Sent(feed, id) == SentAll(feed, {id})

Dropped(feed, ids) ==
    skipped' = IF contract_ok THEN [skipped EXCEPT ![feed] = @ \cup ids] ELSE skipped

Seen(f, resp) ==
    seen' = [seen EXCEPT ![f] = MaxOf({@} \cup Range(IdsOf(resp)))]

NoSnap == [last_home |-> None, muted_home |-> FALSE,
           last_notif |-> None, muted_notif |-> FALSE]

\* An access token: the instance and the remote identity it was issued for,
\* and the login attempt that got it.
Token(url, user, serial) == [url |-> url, user |-> user, serial |-> serial]

\* No Account row, no OAuth row, no Client row.
NoIdent == [url |-> "", user |-> "", token |-> Token("", "", None)]
NoAuth == [url |-> "", user |-> "", pair |-> None]
NoClient == [row |-> FALSE, pair |-> None]

\* No session_scope of the thread has ended yet.
NoEnd == [body |-> "none", outcome |-> "none", writes |-> {}]

\* ------------------------------------------------------------------- Init
\* The account right after _login on a server with empty timelines (so both
\* cursors are None), with either mute flag in either position, and a
\* hashtag conversation that has not been polled yet.  In a run about failing
\* checks the account may already have a direct-message conversation.  The
\* principal is logged in at X as alice, which left X's Client row.
InitFor(scenario) ==
    /\ focus = scenario
    /\ home_tl = <<>> /\ notif_tl = <<>> /\ tag_tl = <<>>
    /\ chat_name \in (IF focus = "tags" THEN ChatNames ELSE {<<Hash("a")>>})
    /\ last_home = None /\ last_notif = None
    /\ muted_home \in (IF focus = "home" THEN BOOLEAN ELSE {FALSE})
    /\ muted_notif \in (IF focus = "notif" THEN BOOLEAN ELSE {FALSE})
    /\ hashtags_last = <<>>
    /\ dmchats \in (IF focus = "errors"
                     THEN {{}, {[chat_id |-> DmChatIds[1], contact |-> "bob"]}}
                     ELSE {{}})
    /\ rows = {"account", "hashtags"}
    /\ member = BoundChats \cup {r.chat_id : r \in dmchats}
    /\ notices = [logout |-> 0, error |-> 0]
    /\ leave_failed = {}
    /\ trouble = "none"
    /\ ident = [url |-> "X", user |-> "alice", token |-> Token("X", "alice", None)]
    /\ auth = NoAuth
    /\ clients = [u \in Urls |-> IF u = "X" THEN [row |-> TRUE, pair |-> 1]
                                 ELSE NoClient]
    /\ apps = [u \in Urls |-> IF u = "X" THEN 1 ELSE 0]
    /\ logins = 0
    /\ lock = "free"
    /\ phase = [t \in Threads |-> "out"]
    /\ work = [t \in Threads |-> {}]
    /\ db = {}
    /\ ended = [t \in Threads |-> NoEnd]
    /\ nwrites = 0
    /\ instances = <<>> /\ round = <<>> /\ served = <<>>
    /\ processed = <<>> /\ collected = {}
    /\ pc = "collect" /\ queue = <<>> /\ snap = NoSnap
    /\ toots = <<>> /\ pending = <<>> /\ sent = <<>> /\ failed_id = None
    /\ writes = {}
    /\ tagq = <<>> /\ lasts = <<>> /\ newlasts = <<>> /\ resps = <<>>
    /\ delivered = [f \in Tracked |-> {}]
    /\ twice = [f \in Tracked |-> {}]
    /\ skipped = [f \in Tracked |-> {}]
    /\ seen = [f \in Tracked \cup Tags |-> None]
    /\ contract_ok = TRUE

InitCommon == \E scenario \in Focuses : InitFor(scenario)

Init == InitCommon /\ faults = FALSE

InitInjected == InitCommon /\ faults = TRUE

\* ------------------------------------------------- environment: the server
\* The server's timelines are read by the fetches only, so an item is added
\* while the poll thread is between two fetches that could tell the difference:
\* before a sweep, and between the fetches of two tags.
\* Runs with fault injection are about the cursors: their timelines are
\* shorter and their items plain.
Cap(max) == IF faults /\ MaxInjected < max THEN MaxInjected ELSE max

Flags == IF faults THEN {FALSE} ELSE BOOLEAN

\* A status appears in the home timeline; it may mention the account itself
\* and may carry a media attachment.
PostHome ==
    /\ focus = "home"
    /\ pc = "collect"
    /\ Len(home_tl) < Cap(MaxHome)
    /\ \E m \in Flags, f \in Flags :
         home_tl' = Append(home_tl, [id |-> Len(home_tl) + 1,
                                     mentions_me |-> m, media |-> f])
    /\ UNCHANGED <<env_vars, hook_vars, scope_vars, drain_vars, acct_vars, queue, failed_id, notif_tl, tag_tl, chat_name, store_vars,
                   thread_vars, hist_vars>>

\* The notification entries the server may add.  `status` is the id of the
\* status an entry refers to (None for a follow), `visibility` and `nmentions`
\* are that status's visibility and number of mentioned accounts, `spam` says
\* whether its content holds a blocklisted substring, `acct` is the sender.
Entry(type, status, visibility, nmentions) ==
    [type |-> type, status |-> status, visibility |-> visibility,
     nmentions |-> nmentions, spam |-> FALSE, media |-> FALSE, acct |-> "bob"]

NotifKinds ==
    {Entry("reblog", 1, "public", 0), Entry("reblog", 2, "public", 0),
     Entry("favourite", 1, "public", 0), Entry("favourite", 2, "public", 0),
     Entry("follow", None, "public", 0),
     Entry("mention", 1, "public", 1),
     [Entry("mention", 1, "public", 1) EXCEPT !.media = TRUE],
     Entry("mention", 1, "direct", 1),
     [Entry("mention", 1, "direct", 1) EXCEPT !.spam = TRUE],
     Entry("mention", 1, "direct", 2)}

PlainKinds ==
    {Entry("follow", None, "public", 0), Entry("mention", 1, "public", 1),
     Entry("mention", 1, "direct", 1)}

\* In a run about notification types: entries of types the bridge has no
\* rule for (a poll that ended refers to a status, a follow request to none),
\* next to a mention and a follow.
OtherKinds ==
    {Entry("poll", 1, "public", 0), Entry("follow_request", None, "public", 0),
     Entry("mention", 1, "public", 1), Entry("follow", None, "public", 0)}

WithId(k, id) ==
    [id |-> id, type |-> k.type, status |-> k.status, visibility |-> k.visibility,
     nmentions |-> k.nmentions, spam |-> k.spam, media |-> k.media, acct |-> k.acct]

PostNotif ==
    /\ focus \in {"notif", "kinds"}
    /\ pc = "collect"
    /\ Len(notif_tl) < Cap(MaxNotif)
    /\ \E k \in (IF focus = "kinds" THEN OtherKinds
                ELSE IF faults THEN PlainKinds ELSE NotifKinds) :
         notif_tl' = Append(notif_tl, WithId(k, Len(notif_tl) + 1))
    /\ UNCHANGED <<env_vars, hook_vars, scope_vars, drain_vars, acct_vars, queue, failed_id, home_tl, tag_tl, chat_name, store_vars,
                   thread_vars, hist_vars>>

\* ------------------------------------------- _check_notifications: classify
\* A faulty rule: the number of mentioned accounts is not looked at.
IsDirectAnyCount(t) == t.type = "mention" /\ t.visibility = "direct"

\* The direct-message rule of _check_notifications.
IsDirect(t) ==
    t.type = "mention" /\ t.visibility = "direct" /\ t.nmentions = 1

\* dms: the entries the rule matches whose content is not blocklisted.
Dms(resp) == SelectSeq(resp, LAMBDA t : IsDirect(t) /\ ~t.spam)

\* A faulty classification: a direct message is kept among the notifications
\* as well.
NotificationsAll(resp, muted) ==
    SelectSeq(resp, LAMBDA t : ~muted \/ t.type \notin MUTED_NOTIFICATIONS)

\* notifications: the other entries the mute flag lets through.
Notifications(resp, muted) ==
    SelectSeq(resp, LAMBDA t :
        ~IsDirect(t) /\ (~muted \/ t.type \notin MUTED_NOTIFICATIONS))

\* A faulty grouping: every entry opens a group of its own.
AddAlone(groups, t) == Append(groups, <<t>>)

\* dict.setdefault(toot.status.id, []).append(toot) on a dict kept as the
\* list of its values in insertion order.
AddToGroups(groups, t) ==
    IF \E i \in DOMAIN groups : groups[i][1].status = t.status
    THEN LET i == CHOOSE j \in DOMAIN groups : groups[j][1].status = t.status
         IN  [groups EXCEPT ![i] = Append(@, t)]
    ELSE Append(groups, <<t>>)

RECURSIVE GroupByStatus(_)
GroupByStatus(s) ==
    IF s = <<>> THEN <<>>
    ELSE AddToGroups(GroupByStatus(SubSeq(s, 1, Len(s) - 1)), s[Len(s)])

\* notifs = [*reblogs.values(), *favs.values()] + [follows] if follows.
Grouped(notifs) ==
    LET rev == Reverse(notifs)
        reblogs == GroupByStatus(SelectSeq(rev, LAMBDA t : t.type = "reblog"))
        favs == GroupByStatus(SelectSeq(rev, LAMBDA t : t.type = "favourite"))
        follows == SelectSeq(rev, LAMBDA t : t.type = "follow")
    IN  reblogs \o favs \o (IF follows # <<>> THEN <<follows>> ELSE <<>>)

\* mentions: every entry of another type, oldest first.
Mentions(notifs) ==
    SelectSeq(Reverse(notifs),
              LAMBDA t : t.type \notin {"reblog", "favourite", "follow"})

\* Where _check_notifications goes once the direct messages are handled.
AfterDms(notifs) ==
    IF Grouped(notifs) # <<>>
    THEN [pc |-> "notif_groups", todo |-> Grouped(notifs)]
    ELSE IF Mentions(notifs) # <<>>
    THEN [pc |-> "notif_mentions", todo |-> Mentions(notifs)]
    ELSE [pc |-> "home", todo |-> <<>>]

\* Where it goes once the grouped notifications are sent.
AfterGroups(notifs) ==
    IF Mentions(notifs) # <<>>
    THEN [pc |-> "notif_mentions", todo |-> Mentions(notifs)]
    ELSE [pc |-> "home", todo |-> <<>>]

\* The ids of a batch that some message is meant to carry, and those that
\* the messages sent so far carried.
Deliverable(resp, muted) ==
    Range(IdsOf(Dms(resp))) \cup Range(IdsOf(Notifications(resp, muted)))

SentIds(out) == UNION {Range(out[i].ids) : i \in DOMAIN out}

\* The time an edit carries: later than every creation time of the run.
EditTime == MaxTagToots + 1

\* A status with hashtags appears; it may have been edited since.  Ids grow
\* with the creation time.  (Attachments are exercised in the home timeline.)
PostTag ==
    /\ focus = "tags"
    /\ pc \in {"collect", "tag_fetch"}
    /\ Len(tag_tl) < Cap(MaxTagToots)
    /\ \E ts \in (SUBSET Tags) \ {{}},
          e \in (IF faults THEN {None} ELSE {None, EditTime}) :
         tag_tl' = Append(tag_tl, [id |-> Len(tag_tl) + 1, tags |-> ts,
                                   created_at |-> Len(tag_tl) + 1,
                                   edited_at |-> e, media |-> FALSE])
    /\ UNCHANGED <<env_vars, hook_vars, scope_vars, drain_vars, acct_vars, queue, failed_id, home_tl, notif_tl, chat_name, store_vars,
                   thread_vars, hist_vars>>

\* The user renames the hashtag conversation.
Rename ==
    /\ focus \in {"tags", "chats"}
    /\ pc = "collect"
    /\ \E n \in (IF focus = "tags" THEN ChatNames ELSE ChatNames \cup PlainNames)
                \ {chat_name} : chat_name' = n
    /\ UNCHANGED <<env_vars, hook_vars, scope_vars, drain_vars, acct_vars, queue, failed_id, server_vars, store_vars, thread_vars, hist_vars>>

\* ---------------------------------------------- _check_hashtags: helpers
\* re.split(r'\W+', info.name): the words of the name, after an empty string
\* when the name starts with a '#'.
Words(name) ==
    (IF name # <<>> /\ name[1].hash THEN <<"">> ELSE <<>>)
    \o [i \in 1..Len(name) |-> name[i].word]

\* [tag for tag in re.split(r'\W+', info.name) if tag != '']
TagsOf(name) == SelectSeq(Words(name), LAMBDA w : w # "")

\* dict.get(key) and dict[key] = value on a dict kept as a function.
Get(d, k) == IF k \in DOMAIN d THEN d[k] ELSE None

Put(d, k, v) == [x \in (DOMAIN d) \cup {k} |-> IF x = k THEN v ELSE d[x]]

\* masto.timeline_hashtag(tag, ...): the statuses carrying the tag.
TagTimeline(tl, tag) == SelectSeq(tl, LAMBDA t : tag \in t.tags)

\* min_id of the fetch of one tag.
TagMinId(d, tag) == Get(d, tag)

\* A faulty merge: toots.extend(t), without the membership test.
ExtendAll(merged, t) == merged \o t

\* toots.extend([tt for tt in t if tt.id not in [to.id for to in toots]])
Extend(merged, t) ==
    merged \o SelectSeq(t, LAMBDA tt : tt.id \notin Range(IdsOf(merged)))

\* A faulty cursor map: a tag whose response is empty loses its cursor.
NewLastDropping(t, d, tag) == IF t # <<>> THEN t[1].id ELSE None

\* newlasts[tag] = t[0].id if t else lasts.get(tag)
NewLast(t, d, tag) == IF t # <<>> THEN t[1].id ELSE Get(d, tag)

\* key=lambda s: s.edited_at if s.edited_at else s.created_at
SortKey(t) == IF t.edited_at # None THEN t.edited_at ELSE t.created_at

\* list.sort(key=...): ascending and stable.
InsertByTime(sorted, x) ==
    LET k == Cardinality({i \in DOMAIN sorted : SortKey(sorted[i]) <= SortKey(x)})
    IN  SubSeq(sorted, 1, k) \o <<x>> \o SubSeq(sorted, k + 1, Len(sorted))

RECURSIVE SortByTime(_)
SortByTime(s) ==
    IF s = <<>> THEN <<>>
    ELSE InsertByTime(SortByTime(SubSeq(s, 1, Len(s) - 1)), s[Len(s)])

\* The order in which the merged, sorted batch is handed to toots2replies.
DeliveryOrder(sorted) == Reverse(sorted)

\* ------------------------------------------------ the poll thread: a sweep
\* _check_mastodon, collect-work: one transaction snapshots the account.
Existing ==
    (IF "account" \in rows THEN {"A"} ELSE {})
    \cup (IF focus = "errors" THEN {"B"} ELSE {})

\* A faulty unit of work: it starts at the home check.
StartAtHome(unit) == IF unit = "A" THEN "home" ELSE "other_unit"

\* Where the unit of work of an account starts.
StartOf(unit) == IF unit = "A" THEN "notif" ELSE "other_unit"

CollectWork ==
    /\ pc = "collect"
    /\ \E order \in Arrangements(Existing) :
         IF order = <<>>
         THEN pc' = "idle" /\ queue' = <<>>
         ELSE pc' = StartOf(Head(order)) /\ queue' = Tail(order)
    /\ snap' = IF "account" \in rows
               THEN [last_home |-> last_home, muted_home |-> muted_home,
                     last_notif |-> last_notif, muted_notif |-> muted_notif]
               ELSE NoSnap
    /\ toots' = <<>> /\ pending' = <<>> /\ sent' = <<>> /\ writes' = {}
    /\ failed_id' = None
    /\ tagq' = <<>> /\ lasts' = <<>> /\ newlasts' = <<>> /\ resps' = <<>>
    /\ UNCHANGED <<env_vars, hook_vars, scope_vars, drain_vars, acct_vars, server_vars, chat_name, store_vars, hist_vars>>

\* `for key in list(instances.keys())`, next turn: the unit that just ended
\* is followed by the next one the sweep collected.
NextUnit ==
    /\ pc = "unit_done"
    /\ queue # <<>>
    /\ pc' = StartOf(Head(queue))
    /\ queue' = Tail(queue)
    /\ failed_id' = None
    /\ UNCHANGED <<env_vars, hook_vars, scope_vars, drain_vars, acct_vars, server_vars, chat_name, store_vars, snap,
                   toots, pending, sent, writes, tag_vars, hist_vars>>

\* An exception leaves _check_mastodon: the frames of the unit of work are
\* unwound, with all that the checks of account A held.
Unwind ==
    /\ pc' = "escaped"
    /\ snap' = NoSnap
    /\ toots' = <<>> /\ pending' = <<>> /\ sent' = <<>> /\ writes' = {}
    /\ failed_id' = None
    /\ tagq' = <<>> /\ lasts' = <<>> /\ newlasts' = <<>> /\ resps' = <<>>

\* The unit of work of the other principal's account, start to end: it ends
\* inside the try statement, or an exception leaves one of its handlers.
OtherUnit ==
    /\ pc = "other_unit"
    /\ \E escapes \in BOOLEAN :
         IF escapes
         THEN Unwind
         ELSE /\ pc' = "unit_done"
              /\ UNCHANGED <<snap, toots, pending, sent, failed_id, writes, tag_vars>>
    /\ UNCHANGED <<env_vars, hook_vars, scope_vars, drain_vars, acct_vars, server_vars, chat_name, store_vars, queue,
                   hist_vars>>

\* Faulty cursors: the largest id of the response; its last item's id; the
\* value the store already holds (the write is lost).
NewCursorMax(resp) == MaxOf(Range(IdsOf(resp)))

NewCursorOldest(resp) == resp[Len(resp)].id

NewCursorKept(resp) == IF pc = "home" THEN last_home ELSE last_notif

\* The id a non-empty response moves the cursor to: toots[0].id.
NewCursor(resp) == resp[1].id

\* toots2replies: what the generator still yields after the reply of the head
\* of `todo`; dl tells whether the download of the head's attachment worked.
\* After a reply that carries a downloaded file the generator returns.
toots2replies_rest(todo, dl) ==
    IF Head(todo).media /\ dl THEN <<>> ELSE Tail(todo)

\* notif2reply: a group gets a message unless its type is unsupported.
HasReply(group) == group[1].type \in {"follow", "reblog", "favourite"}

\* _check_notifications up to the delivery: fetch, commit the cursor, split
\* the batch into dms and notifications.  The commit of a non-empty response
\* raises an AttributeError when the Account row is gone.
NotifFetch ==
    /\ pc = "notif"
    /\ trouble = "none"
    /\ \E resp \in Responses(notif_tl, snap.last_notif) :
         LET dms == Dms(resp)
             notifs == Notifications(resp, snap.muted_notif)
             gone == resp # <<>> /\ "account" \notin rows
             next == IF gone THEN [pc |-> "unexpected", todo |-> <<>>]
                     ELSE IF dms # <<>> THEN [pc |-> "dms", todo |-> Reverse(dms)]
                     ELSE AfterDms(notifs)
         IN  /\ toots' = resp
             /\ last_notif' = IF resp # <<>> /\ ~gone THEN NewCursor(resp)
                              ELSE last_notif
             /\ writes' = IF resp # <<>> /\ ~gone THEN writes \cup {"last_notif"}
                          ELSE writes
             /\ pending' = next.todo
             /\ pc' = next.pc
             /\ contract_ok' = (contract_ok
                                /\ resp = ContractPage(notif_tl, snap.last_notif, Limit))
             /\ Seen("notif", resp)
    /\ sent' = <<>>
    /\ UNCHANGED <<tag_vars, env_vars, hook_vars, scope_vars, drain_vars, acct_vars, queue, failed_id, server_vars, chat_name, last_home, muted_home,
                   muted_notif, hashtags_last, dmchats, snap,
                   delivered, twice, skipped>>

\* What of the notifications batch is lost when the check ends here.
NotifLost == Deliverable(toots, snap.muted_notif) \ SentIds(sent)

\* The DmChat rows of account A for a correspondent.
DmRows(acct) == {r \in dmchats : r.contact = acct}

\* The id the chat transport gives to the next conversation it creates.
NewChatId ==
    IF \A r \in dmchats : r.chat_id # DmChatIds[1] THEN DmChatIds[1] ELSE DmChatIds[2]

\* session.add(DmChat(chat_id=chat_id, contact=acct, contactid=conid)): the
\* primary key is chat_id, nothing stops a second row for the correspondent.
AddDmChat(acct) == dmchats \cup {[chat_id |-> NewChatId, contact |-> acct]}

\* The conversations send_reply may take for a correspondent: the one the
\* `chats` dict of this call holds for it, and without one that of a DmChat
\* row of the correspondent, whichever the query returns first.
KnownChats(acct) ==
    LET cached == {sent[i].chat : i \in {j \in DOMAIN sent :
                        sent[j].kind = "dm" /\ sent[j].acct = acct}}
    IN  IF cached # {} THEN cached ELSE {r.chat_id : r \in DmRows(acct)}

\* _handle_dms, one turn of its loop for a correspondent whose conversation
\* is known (from the `chats` dict of this call or from a DmChat row):
\* send the message.
DmSend ==
    /\ pc = "dms"
    /\ KnownChats(Head(pending).acct) # {}
    /\ \E ok \in BOOLEAN, chat \in KnownChats(Head(pending).acct) :
         LET dm == Head(pending)
             rest == Tail(pending)
             next == IF rest # <<>> THEN [pc |-> "dms", todo |-> rest]
                     ELSE AfterDms(Notifications(toots, snap.muted_notif))
         IN  IF ok
             THEN /\ sent' = Append(sent, [kind |-> "dm", ids |-> <<dm.id>>,
                                           acct |-> dm.acct, chat |-> chat])
                  /\ Sent("notif", dm.id)
                  /\ pending' = next.todo
                  /\ pc' = next.pc
                  /\ UNCHANGED <<skipped, failed_id>>
             ELSE /\ Dropped("notif", NotifLost)
                  /\ pending' = <<>>
                  /\ pc' = "unexpected"
                  /\ failed_id' = dm.id
                  /\ UNCHANGED <<sent, delivered, twice>>
    /\ UNCHANGED <<tag_vars, env_vars, hook_vars, scope_vars, drain_vars, acct_vars, queue, server_vars, chat_name,
                   store_vars, snap, toots, writes, seen, contract_ok>>

\* _get_chat_id found no row for the correspondent: its transaction is over,
\* the conversation is still to be created.
DmLookupMiss ==
    /\ pc = "dms"
    /\ KnownChats(Head(pending).acct) = {}
    /\ pc' = "dm_create"
    /\ UNCHANGED <<tag_vars, env_vars, hook_vars, scope_vars, drain_vars, acct_vars, queue, server_vars, chat_name,
                   store_vars, snap, toots, pending, sent, failed_id, writes,
                   hist_vars>>

\* The rest of send_reply after a lookup that found nothing: create the
\* conversation, add its DmChat row in a transaction of its own (whatever
\* rows the store holds by now), send the message.
DmCreate ==
    /\ pc = "dm_create"
    /\ \E out \in {"sent", "send_failed", "create_failed"} :
         LET dm == Head(pending)
             rest == Tail(pending)
             next == IF rest # <<>> THEN [pc |-> "dms", todo |-> rest]
                     ELSE AfterDms(Notifications(toots, snap.muted_notif))
         IN  /\ IF out = "create_failed"
                THEN UNCHANGED <<dmchats, member, writes>>
                ELSE /\ dmchats' = AddDmChat(dm.acct)
                     /\ member' = member \cup {NewChatId}
                     /\ writes' = writes \cup {"dmchat"}
             /\ IF out = "sent"
                THEN /\ sent' = Append(sent, [kind |-> "dm", ids |-> <<dm.id>>,
                                              acct |-> dm.acct, chat |-> NewChatId])
                     /\ Sent("notif", dm.id)
                     /\ pending' = next.todo
                     /\ pc' = next.pc
                     /\ UNCHANGED <<skipped, failed_id>>
                ELSE /\ Dropped("notif", NotifLost)
                     /\ pending' = <<>>
                     /\ pc' = "unexpected"
                     /\ failed_id' = dm.id
                     /\ UNCHANGED <<sent, delivered, twice>>
    /\ UNCHANGED <<tag_vars, env_vars, hook_vars, scope_vars, drain_vars, rows, notices, leave_failed, trouble, queue,
                   server_vars, chat_name, last_home, last_notif, muted_home,
                   muted_notif, hashtags_last, snap, toots, seen, contract_ok>>

\* One turn of `for reply in notif2replies(notifs): send_msg`.
NotifSend ==
    /\ pc = "notif_groups"
    /\ \E ok \in BOOLEAN :
         LET group == Head(pending)
             rest == Tail(pending)
             next == IF rest # <<>> THEN [pc |-> "notif_groups", todo |-> rest]
                     ELSE AfterGroups(Notifications(toots, snap.muted_notif))
         IN  IF ok \/ ~HasReply(group)
             THEN /\ IF HasReply(group)
                     THEN /\ sent' = Append(sent, [kind |-> "group",
                                                   ids |-> IdsOf(group)])
                          /\ SentAll("notif", Range(IdsOf(group)))
                     ELSE UNCHANGED <<sent, delivered, twice>>
                  /\ pending' = next.todo
                  /\ pc' = next.pc
                  /\ UNCHANGED <<skipped, failed_id>>
             ELSE /\ Dropped("notif", NotifLost)
                  /\ pending' = <<>>
                  /\ pc' = "unexpected"
                  /\ failed_id' = group[1].id
                  /\ UNCHANGED <<sent, delivered, twice>>
    /\ UNCHANGED <<tag_vars, env_vars, hook_vars, scope_vars, drain_vars, acct_vars, queue, server_vars, chat_name, store_vars, snap, toots,
                   writes, seen, contract_ok>>

\* `mentions.append(toot.status)` for an entry that has no status: a client
\* that does not fill the fields an entry lacks raises an AttributeError
\* there, before anything of the notifications is sent.
StatusMissing ==
    /\ pc \in {"notif_groups", "notif_mentions"}
    /\ \A i \in DOMAIN sent : sent[i].kind = "dm"
    /\ \E i \in DOMAIN toots :
         /\ toots[i].type \notin {"mention", "reblog", "favourite", "follow"}
         /\ toots[i].status = None
    /\ Dropped("notif", NotifLost)
    /\ pending' = <<>>
    /\ pc' = "unexpected"
    /\ UNCHANGED <<tag_vars, env_vars, hook_vars, scope_vars, drain_vars, acct_vars, queue,
                   server_vars, chat_name, store_vars, snap, toots, sent,
                   failed_id, writes, delivered, twice, seen, contract_ok>>

\* One turn of `for reply in toots2replies(bot, mentions): send_msg`;
\* toot2reply raises when the entry had no status to render.
MentionSend ==
    /\ pc = "notif_mentions"
    /\ \E dl \in BOOLEAN, ok \in BOOLEAN :
         LET toot == Head(pending)
             rest == toots2replies_rest(pending, dl)
         IN  IF ok /\ toot.status # None
             THEN /\ sent' = Append(sent, [kind |-> "mention", ids |-> <<toot.id>>])
                  /\ Sent("notif", toot.id)
                  /\ pending' = rest
                  /\ Dropped("notif", IF rest = <<>> THEN Range(IdsOf(Tail(pending)))
                                      ELSE {})
                  /\ pc' = IF rest = <<>> THEN "home" ELSE "notif_mentions"
                  /\ UNCHANGED failed_id
             ELSE /\ Dropped("notif", NotifLost)
                  /\ pending' = <<>>
                  /\ pc' = "unexpected"
                  /\ failed_id' = toot.id
                  /\ UNCHANGED <<sent, delivered, twice>>
    /\ UNCHANGED <<tag_vars, env_vars, hook_vars, scope_vars, drain_vars, acct_vars, queue, server_vars, chat_name, store_vars, snap, toots,
                   writes, seen, contract_ok>>

\* _check_mastodon: the home timeline is skipped when the snapshot is muted.
CheckHomeMuted ==
    /\ pc = "home"
    /\ snap.muted_home
    /\ pc' = "hashtags"
    /\ toots' = <<>> /\ pending' = <<>> /\ sent' = <<>>
    /\ UNCHANGED <<tag_vars, env_vars, hook_vars, scope_vars, drain_vars, acct_vars, queue, failed_id, server_vars, chat_name, store_vars, snap, writes,
                   hist_vars>>

\* _check_home up to the delivery loop: fetch, commit the cursor, drop the
\* statuses that mention the account itself.
HomeFetch ==
    /\ pc = "home"
    /\ ~snap.muted_home
    /\ trouble = "none"
    /\ \E resp \in Responses(home_tl, snap.last_home) :
         LET kept == SelectSeq(resp, LAMBDA t : ~t.mentions_me)
             gone == resp # <<>> /\ "account" \notin rows
         IN  /\ toots' = resp
             /\ last_home' = IF resp # <<>> /\ ~gone THEN NewCursor(resp)
                             ELSE last_home
             /\ writes' = IF resp # <<>> /\ ~gone THEN writes \cup {"last_home"}
                          ELSE writes
             /\ pending' = IF gone THEN <<>> ELSE Reverse(kept)
             /\ pc' = IF gone THEN "unexpected"
                      ELSE IF kept = <<>> THEN "hashtags" ELSE "home_send"
             /\ contract_ok' = (contract_ok
                                /\ resp = ContractPage(home_tl, snap.last_home, Limit))
             /\ Seen("home", resp)
    /\ sent' = <<>>
    /\ UNCHANGED <<tag_vars, env_vars, hook_vars, scope_vars, drain_vars, acct_vars, queue, failed_id, server_vars, chat_name, last_notif, muted_home,
                   muted_notif, hashtags_last, dmchats, snap,
                   delivered, twice, skipped>>

\* One turn of `for reply in toots2replies(bot, reversed(toots)): send_msg`.
\* A send_msg that raises ends the unit of work; the rest is never sent.
HomeSend ==
    /\ pc = "home_send"
    /\ \E dl \in BOOLEAN, ok \in BOOLEAN :
         LET toot == Head(pending)
             rest == toots2replies_rest(pending, dl)
         IN  IF ok
             THEN /\ sent' = Append(sent, toot.id)
                  /\ Sent("home", toot.id)
                  /\ pending' = rest
                  /\ Dropped("home", IF rest = <<>> THEN Range(IdsOf(Tail(pending)))
                                     ELSE {})
                  /\ pc' = IF rest = <<>> THEN "hashtags" ELSE "home_send"
                  /\ UNCHANGED failed_id
             ELSE /\ Dropped("home", Range(IdsOf(pending)))
                  /\ pending' = <<>>
                  /\ pc' = "unexpected"
                  /\ failed_id' = toot.id
                  /\ UNCHANGED <<sent, delivered, twice>>
    /\ UNCHANGED <<tag_vars, env_vars, hook_vars, scope_vars, drain_vars, acct_vars, queue, server_vars, chat_name, store_vars, snap, toots,
                   writes, seen, contract_ok>>

\* _check_hashtags: one transaction reads the watch of the account, then the
\* conversation's name gives the tags.
TagsRead ==
    /\ pc = "hashtags"
    /\ IF "hashtags" \in rows
       THEN /\ lasts' = hashtags_last
            /\ tagq' = TagsOf(chat_name)
            /\ pc' = "tag_fetch"
       ELSE /\ lasts' = <<>>
            /\ tagq' = <<>>
            /\ pc' = "unit_done"
    /\ newlasts' = <<>> /\ resps' = <<>>
    /\ toots' = <<>> /\ pending' = <<>> /\ sent' = <<>>
    /\ UNCHANGED <<env_vars, hook_vars, scope_vars, drain_vars, acct_vars, queue, failed_id, server_vars, chat_name, store_vars, snap, writes,
                   hist_vars>>

\* A faulty hashtag check: the cursor map is written to the store as soon as
\* the last tag is fetched, ahead of the delivery loop.
TagFetchPersisting ==
    /\ pc = "tag_fetch"
    /\ trouble = "none"
    /\ LET tag == Head(tagq)
           tl == TagTimeline(tag_tl, tag)
       IN  \E t \in Responses(tl, TagMinId(lasts, tag)) :
             LET merged == Extend(toots, t)
                 sorted == SortByTime(merged)
             IN  /\ newlasts' = Put(newlasts, tag, NewLast(t, lasts, tag))
                 /\ resps' = Put(resps, tag, [min_id |-> TagMinId(lasts, tag),
                                              toots |-> t])
                 /\ Seen(tag, t)
                 /\ tagq' = Tail(tagq)
                 /\ contract_ok' = (contract_ok
                        /\ t = ContractPage(tl, TagMinId(lasts, tag), Limit))
                 /\ IF Tail(tagq) # <<>>
                    THEN /\ toots' = merged
                         /\ pc' = "tag_fetch"
                         /\ UNCHANGED <<pending, hashtags_last, writes>>
                    ELSE /\ toots' = sorted
                         /\ pending' = DeliveryOrder(sorted)
                         /\ hashtags_last' = newlasts'
                         /\ writes' = writes \cup {"hashtags_last"}
                         /\ pc' = IF sorted = <<>> THEN "unit_done" ELSE "tag_send"
    /\ UNCHANGED <<env_vars, hook_vars, scope_vars, drain_vars, acct_vars, queue, failed_id, server_vars, chat_name, last_home, last_notif,
                   muted_home, muted_notif, dmchats, snap, sent,
                   lasts, delivered, twice, skipped>>

\* One turn of `for tag in tags`: fetch the tag bounded by its own cursor,
\* merge, note the tag's new cursor.  After the last tag the merged list is
\* sorted and handed to the delivery loop.
TagFetch ==
    /\ pc = "tag_fetch"
    /\ trouble = "none"
    /\ LET tag == Head(tagq)
           tl == TagTimeline(tag_tl, tag)
       IN  \E t \in Responses(tl, TagMinId(lasts, tag)) :
             LET merged == Extend(toots, t)
                 sorted == SortByTime(merged)
             IN  /\ newlasts' = Put(newlasts, tag, NewLast(t, lasts, tag))
                 /\ resps' = Put(resps, tag, [min_id |-> TagMinId(lasts, tag),
                                              toots |-> t])
                 /\ Seen(tag, t)
                 /\ tagq' = Tail(tagq)
                 /\ contract_ok' = (contract_ok
                        /\ t = ContractPage(tl, TagMinId(lasts, tag), Limit))
                 /\ IF Tail(tagq) # <<>>
                    THEN /\ toots' = merged
                         /\ pc' = "tag_fetch"
                         /\ UNCHANGED pending
                    ELSE /\ toots' = sorted
                         /\ pending' = DeliveryOrder(sorted)
                         /\ pc' = IF sorted = <<>> THEN "tag_persist" ELSE "tag_send"
    /\ UNCHANGED <<env_vars, hook_vars, scope_vars, drain_vars, acct_vars, queue, failed_id, server_vars, chat_name, store_vars, snap, sent,
                   writes, lasts, delivered, twice, skipped>>

\* One turn of `for reply in toots2replies(bot, reversed(toots)): send_msg`
\* to the hashtag conversation.
TagSend ==
    /\ pc = "tag_send"
    /\ \E dl \in BOOLEAN, ok \in BOOLEAN :
         LET toot == Head(pending)
             rest == toots2replies_rest(pending, dl)
         IN  IF ok
             THEN /\ sent' = Append(sent, toot.id)
                  /\ pending' = rest
                  /\ pc' = IF rest = <<>> THEN "tag_persist" ELSE "tag_send"
                  /\ UNCHANGED failed_id
             ELSE /\ pending' = <<>>
                  /\ pc' = "unexpected"
                  /\ failed_id' = toot.id
                  /\ UNCHANGED sent
    /\ UNCHANGED <<env_vars, hook_vars, scope_vars, drain_vars, acct_vars, queue, server_vars, chat_name, store_vars, snap, toots,
                   writes, tag_vars, hist_vars>>

\* The closing transaction of _check_hashtags: chat.last = json.dumps(newlasts)
\* (an AttributeError when the row is gone by now).
TagPersist ==
    /\ pc = "tag_persist"
    /\ IF "hashtags" \in rows
       THEN /\ hashtags_last' = newlasts
            /\ writes' = writes \cup {"hashtags_last"}
            /\ pc' = "unit_done"
       ELSE /\ pc' = "unexpected"
            /\ UNCHANGED <<hashtags_last, writes>>
    /\ UNCHANGED <<env_vars, hook_vars, scope_vars, drain_vars, acct_vars, queue, failed_id, server_vars, chat_name, last_home, last_notif,
                   muted_home, muted_notif, dmchats, snap, toots, pending, sent,
                   tag_vars, hist_vars>>

\* What is wrong has caught the unit of work at one of its API calls.
Raise ==
    /\ pc \in {"notif", "home", "tag_fetch"}
    /\ pc = "home" => ~snap.muted_home
    /\ trouble # "none"
    /\ pc' = trouble
    /\ UNCHANGED <<env_vars, hook_vars, scope_vars, drain_vars, acct_vars, server_vars, chat_name, store_vars, queue,
                   snap, toots, pending, sent, failed_id, writes, tag_vars,
                   hist_vars>>

\* One more message about the trouble of the server, or about an account
\* that is gone, has reached the principal (messages about anything else are
\* not counted).
Noticed(kind) ==
    IF trouble = "none" /\ "account" \in rows THEN notices
    ELSE [notices EXCEPT ![kind] = IF @ < MaxNotices THEN @ + 1 ELSE @]

\* A faulty handler of transient errors: it tells the principal.
HandleTransientReporting ==
    /\ pc = "transient"
    /\ pc' = "unit_done"
    /\ notices' = Noticed("error")
    /\ UNCHANGED <<env_vars, hook_vars, scope_vars, drain_vars, rows, member, leave_failed, trouble, server_vars,
                   chat_name, store_vars, queue, snap, toots, pending, sent,
                   failed_id, writes, tag_vars, hist_vars>>

\* except (MastodonNetworkError, MastodonServerError, MastodonRatelimitError):
\* the exception is logged, nothing else.
HandleTransient ==
    /\ pc = "transient"
    /\ pc' = "unit_done"
    /\ UNCHANGED <<env_vars, hook_vars, scope_vars, drain_vars, acct_vars, server_vars, chat_name, store_vars, queue,
                   snap, toots, pending, sent, failed_id, writes, tag_vars,
                   hist_vars>>

\* except Exception: the exception is logged and reported to the principal;
\* the report goes through the chat transport and may raise in its turn, and
\* then the exception leaves _check_mastodon.
HandleOther ==
    /\ pc = "unexpected"
    /\ \E reported \in BOOLEAN :
         IF reported
         THEN /\ notices' = Noticed("error")
              /\ pc' = "unit_done"
              /\ failed_id' = None
              /\ UNCHANGED <<snap, toots, pending, sent, writes, tag_vars>>
         ELSE /\ Unwind
              /\ UNCHANGED notices
    /\ UNCHANGED <<env_vars, hook_vars, scope_vars, drain_vars, rows, member, leave_failed, trouble, server_vars,
                   chat_name, store_vars, queue, hist_vars>>

\* The conversations the teardown asks to leave: those of the DmChat rows,
\* the home one and the notifications one.
ChatsToLeave == {r.chat_id : r \in dmchats} \cup {"home", "notif"}

\* except MastodonUnauthorizedError: one transaction deletes the Account row
\* if there still is one (its DmChat and Hashtags rows go with it), then the conversations are left
\* one by one, a JsonRpcError of any of them being swallowed, then the
\* principal is told; telling may raise, and then the exception leaves
\* _check_mastodon.
HandleUnauthorized ==
    /\ pc = "unauthorized"
    /\ IF "account" \in rows
       THEN /\ rows' = rows \ {"account", "hashtags"}
            /\ dmchats' = {}
            /\ ident' = NoIdent
            /\ \E failed \in SUBSET ChatsToLeave :
                 /\ member' = member \ (ChatsToLeave \ failed)
                 /\ leave_failed' = failed
       ELSE UNCHANGED <<rows, dmchats, ident, member, leave_failed>>
    /\ \E reported \in BOOLEAN :
         IF reported
         THEN /\ notices' = Noticed("logout")
              /\ pc' = "unit_done"
              /\ UNCHANGED <<snap, toots, pending, sent, failed_id, writes, tag_vars>>
         ELSE /\ Unwind
              /\ UNCHANGED notices
    /\ UNCHANGED <<env_vars, auth, clients, apps, logins, scope_vars, drain_vars, trouble,
                   server_vars, chat_name, last_home, last_notif,
                   muted_home, muted_notif, hashtags_last, queue, hist_vars>>

\* A faulty listen_to_mastodon: the exception ends the thread.
ThreadEnds ==
    /\ pc = "escaped"
    /\ pc' = "ended"
    /\ queue' = <<>>
    /\ UNCHANGED <<env_vars, hook_vars, scope_vars, drain_vars, acct_vars, server_vars, chat_name, store_vars, snap,
                   toots, pending, sent, failed_id, writes, tag_vars, hist_vars>>

\* listen_to_mastodon: an exception that left _check_mastodon is logged and
\* _check_mastodon is called again; the units the sweep had collected and not
\* started are gone with its frame.
Relisten ==
    /\ pc = "escaped"
    /\ pc' = "collect"
    /\ queue' = <<>>
    /\ UNCHANGED <<env_vars, hook_vars, scope_vars, drain_vars, acct_vars, server_vars, chat_name, store_vars, snap,
                   toots, pending, sent, failed_id, writes, tag_vars, hist_vars>>

\* time.sleep(delay) is over: `while True` of _check_mastodon starts the
\* next sweep.
Wake ==
    /\ pc = "idle"
    /\ pc' = "collect"
    /\ UNCHANGED <<env_vars, hook_vars, scope_vars, drain_vars, acct_vars, server_vars, chat_name, store_vars, queue,
                   snap, toots, pending, sent, failed_id, writes, tag_vars,
                   hist_vars>>

\* Every collected unit of work is over (normally or by an exception
\* _check_mastodon caught): the sweep goes to its sleep.
EndSweep ==
    /\ pc = "unit_done"
    /\ queue = <<>>
    /\ pc' = "idle"
    /\ snap' = NoSnap
    /\ toots' = <<>> /\ pending' = <<>> /\ sent' = <<>> /\ writes' = {}
    /\ failed_id' = None
    /\ tagq' = <<>> /\ lasts' = <<>> /\ newlasts' = <<>> /\ resps' = <<>>
    /\ UNCHANGED <<env_vars, hook_vars, scope_vars, drain_vars, acct_vars, queue, server_vars, chat_name, store_vars, hist_vars>>

\* The process stops anywhere in a unit of work and is started again: the
\* store is kept, everything the thread held is lost.
Restart ==
    /\ pc \notin {"collect", "idle", "unit_done", "escaped", "other_unit"}
    /\ pc' = "collect"
    /\ queue' = <<>>
    /\ snap' = NoSnap
    /\ toots' = <<>> /\ pending' = <<>> /\ sent' = <<>> /\ writes' = {}
    /\ failed_id' = None
    /\ tagq' = <<>> /\ lasts' = <<>> /\ newlasts' = <<>> /\ resps' = <<>>
    /\ CASE pc = "home_send" -> Dropped("home", Range(IdsOf(pending)))
         [] pc \in {"dms", "dm_create", "notif_groups", "notif_mentions"} ->
                Dropped("notif", NotifLost)
         [] OTHER -> UNCHANGED skipped
    /\ UNCHANGED <<env_vars, hook_vars, scope_vars, drain_vars, acct_vars, server_vars, chat_name, store_vars,
                   delivered, twice, seen, contract_ok>>

\* ------------------------------------------------ the server of account A
\* The credentials are revoked, the server goes down or starts to answer
\* what the client cannot handle; or it is well again.
Break ==
    /\ focus = "errors"
    /\ pc = "collect"
    /\ trouble = "none"
    /\ "account" \in rows
    /\ \E t \in Troubles : trouble' = t
    /\ notices' = [logout |-> 0, error |-> 0]
    /\ UNCHANGED <<env_vars, hook_vars, scope_vars, drain_vars, rows, member, leave_failed, server_vars, chat_name,
                   store_vars, thread_vars, hist_vars>>

Heal ==
    /\ pc = "collect"
    /\ trouble # "none"
    /\ trouble' = "none"
    /\ UNCHANGED <<env_vars, hook_vars, scope_vars, drain_vars, rows, member, notices, leave_failed, server_vars,
                   chat_name, store_vars, thread_vars, hist_vars>>

\* ------------------------------------------------- the command path (hooks)
Chats == {"home", "notif", "other"}

\* /mute without payload, sent in conversation `chat`.
MuteCmd(chat) ==
    /\ IF chat = "home"
       THEN /\ muted_home' = TRUE
            /\ last_home' = None
            /\ UNCHANGED muted_notif
       ELSE IF chat = "notif"
       THEN /\ muted_notif' = TRUE
            /\ UNCHANGED <<muted_home, last_home>>
       ELSE UNCHANGED <<muted_home, muted_notif, last_home>>
    /\ UNCHANGED <<env_vars, hook_vars, scope_vars, drain_vars, acct_vars, queue, failed_id, server_vars, chat_name, last_notif, hashtags_last,
                   dmchats, thread_vars, hist_vars>>

\* /unmute without payload, sent in conversation `chat`.
UnmuteCmd(chat) ==
    /\ IF chat = "home"
       THEN /\ muted_home' = FALSE
            /\ last_home' = None
            /\ UNCHANGED muted_notif
       ELSE IF chat = "notif"
       THEN /\ muted_notif' = FALSE
            /\ UNCHANGED <<muted_home, last_home>>
       ELSE UNCHANGED <<muted_home, muted_notif, last_home>>
    /\ UNCHANGED <<env_vars, hook_vars, scope_vars, drain_vars, acct_vars, queue, failed_id, server_vars, chat_name, last_notif, hashtags_last,
                   dmchats, thread_vars, hist_vars>>

\* /dm <acct> of the principal of account A: one transaction looks the
\* DmChat row up and, finding none, creates the conversation and adds the row.
DmCmd(acct) ==
    /\ "account" \in rows
    /\ DmRows(acct) = {}
    /\ Cardinality(dmchats) < Len(DmChatIds)
    /\ dmchats' = AddDmChat(acct)
    /\ member' = member \cup {NewChatId}
    /\ UNCHANGED <<env_vars, hook_vars, scope_vars, drain_vars, rows, notices, leave_failed, trouble, server_vars,
                   chat_name, last_home, last_notif, muted_home, muted_notif,
                   hashtags_last, thread_vars, hist_vars>>

\* A faulty get_client: it registers an application at every login.
GetClientRegistering(url, registers) ==
    [clients |-> [clients EXCEPT ![url] = [row |-> TRUE, pair |-> apps[url] + 1]],
     apps |-> [apps EXCEPT ![url] = @ + 1],
     pair |-> apps[url] + 1]

\* get_client: the pair of the Client row of the url; without a row,
\* create_app registers an application (or fails, and the pair is None) and
\* the outcome is stored as the url's row.  The result holds the rows and the
\* registrations as they are afterwards, and the pair.
GetClient(url, registers) ==
    IF clients[url].row
    THEN [clients |-> clients, apps |-> apps, pair |-> clients[url].pair]
    ELSE LET pair == IF registers THEN apps[url] + 1 ELSE None
         IN  [clients |-> [clients EXCEPT ![url] = [row |-> TRUE, pair |-> pair]],
              apps |-> [apps EXCEPT ![url] = IF registers THEN @ + 1 ELSE @],
              pair |-> pair]

\* What _login does for the principal, called with the handle `user` that
\* the caller read from the store ("" when it found no account) and logged in
\* at the instance as `uname`: with a handle it refreshes the token of the
\* Account row when the handles agree (an AttributeError when the row is
\* gone) and rejects otherwise; without a handle it adds an Account row, which
\* the database refuses when the principal has one.
LoginResult(user, uname) ==
    IF user # ""
    THEN IF user # uname THEN "rejected"
         ELSE IF "account" \in rows THEN "refreshed" ELSE "raised"
    ELSE IF "account" \in rows THEN "raised" ELSE "created"

\* n[0].id if n else None, for n the newest item of a timeline.
NewestId(tl) == IF tl = <<>> THEN None ELSE tl[Len(tl)].id

\* The store and the conversations after _login with that result.
ApplyLogin(res, url, uname) ==
    /\ ident' = CASE res = "refreshed" ->
                        [ident EXCEPT !.token = Token(url, uname, logins + 1)]
                   [] res = "created" ->
                        [url |-> url, user |-> uname,
                         token |-> Token(url, uname, logins + 1)]
                   [] OTHER -> ident
    /\ IF res = "created"
       THEN /\ member' = member \cup {"home", "notif"}
            /\ last_home' = NewestId(home_tl)
            /\ last_notif' = NewestId(notif_tl)
            /\ muted_home' = FALSE /\ muted_notif' = FALSE
       ELSE UNCHANGED <<member, last_home, last_notif, muted_home, muted_notif>>

\* /login <url> [<email> <password>] of A's principal.  Logged in at another
\* instance, the principal is turned away at once.  Otherwise the client
\* pair of the instance is looked up or registered; with a password the
\* login is made (it may fail, and fails without a client pair) and _login
\* called; without one an OAuth row is written for the principal, over the
\* one there may be.
LoginCmd(url, password, uname, registers, ok) ==
    /\ logins < MaxLogins
    /\ logins' = logins + 1
    /\ IF "account" \in rows /\ ident.url # url
       THEN UNCHANGED <<ident, auth, clients, apps, rows, member, last_home,
                        last_notif, muted_home, muted_notif>>
       ELSE LET user == IF "account" \in rows THEN ident.user ELSE ""
                c == GetClient(url, registers)
                res == LoginResult(user, uname)
            IN  /\ clients' = c.clients
                /\ apps' = c.apps
                /\ IF password
                   THEN IF ok /\ c.pair # None
                        THEN /\ ApplyLogin(res, url, uname)
                             /\ rows' = IF res = "created"
                                        THEN rows \cup {"account"} ELSE rows
                             /\ UNCHANGED auth
                        ELSE UNCHANGED <<ident, auth, rows, member, last_home,
                                         last_notif, muted_home, muted_notif>>
                   ELSE /\ IF c.pair = None
                           THEN UNCHANGED <<auth, rows>>
                           ELSE /\ auth' = [url |-> url, user |-> user,
                                            pair |-> c.pair]
                                /\ rows' = rows \cup {"oauth"}
                        /\ UNCHANGED <<ident, member, last_home, last_notif,
                                       muted_home, muted_notif>>
    /\ UNCHANGED <<env_vars, scope_vars, drain_vars, notices, leave_failed, trouble, server_vars,
                   chat_name, hashtags_last, dmchats, thread_vars, hist_vars>>

\* on_msg in the principal's one-to-one conversation while an OAuth row
\* waits: the text is taken as the authorization code of the row's instance;
\* when the code is good _login is called with the handle of the row, and
\* when _login returns the row is deleted.
CodeMsg(uname, ok) ==
    /\ logins < MaxLogins
    /\ logins' = logins + 1
    /\ "oauth" \in rows
    /\ LET res == LoginResult(auth.user, uname)
       IN  IF ok
           THEN /\ ApplyLogin(res, auth.url, uname)
                /\ IF res = "raised"
                   THEN UNCHANGED <<auth, rows>>
                   ELSE /\ auth' = NoAuth
                        /\ rows' = (rows \ {"oauth"})
                                   \cup (IF res = "created" THEN {"account"} ELSE {})
           ELSE UNCHANGED <<ident, auth, rows, member, last_home, last_notif,
                            muted_home, muted_notif>>
    /\ UNCHANGED <<env_vars, scope_vars, drain_vars, clients, apps, notices, leave_failed,
                   trouble, server_vars, chat_name, hashtags_last, dmchats,
                   thread_vars, hist_vars>>

\* session.delete(acc) with the cascade of Account.dm_chats and
\* Account.hashtags, and the leave_group calls that follow it.
DeleteAccount ==
    /\ rows' = rows \ {"account", "hashtags"}
    /\ dmchats' = {}
    /\ ident' = NoIdent
    /\ \E failed \in SUBSET ChatsToLeave :
         /\ member' = member \ (ChatsToLeave \ failed)
         /\ leave_failed' = failed

\* /logout of A's principal.
LogoutCmd ==
    /\ "account" \in rows
    /\ DeleteAccount
    /\ UNCHANGED <<env_vars, auth, clients, apps, logins, scope_vars, drain_vars, notices,
                   trouble, server_vars, chat_name, last_home, last_notif,
                   muted_home, muted_notif, hashtags_last, thread_vars, hist_vars>>

\* A faulty on_removed: the rows of every direct-message conversation go
\* with the abandoned one.
RemoveAllDms(chat) == {}

\* session.delete(dmchat) for the row of the abandoned conversation.
RemoveDm(chat) == {r \in dmchats : r.chat_id # chat}

\* on_removed: a conversation is abandoned (the bot was removed from it, or
\* its last other member left).  The home or notifications conversation takes
\* the account with it; a direct-message or hashtag conversation only its
\* own row.
Removed(chat) ==
    /\ chat \in member
    /\ IF chat \in {"home", "notif"}
       THEN /\ "account" \in rows
            /\ DeleteAccount
       ELSE /\ IF chat = "tags"
               THEN /\ "hashtags" \in rows
                    /\ rows' = rows \ {"hashtags"}
                    /\ UNCHANGED dmchats
               ELSE /\ \E r \in dmchats : r.chat_id = chat
                    /\ dmchats' = RemoveDm(chat)
                    /\ UNCHANGED rows
            /\ \E left \in BOOLEAN :
                 member' = IF left THEN member \ {chat} ELSE member
            /\ UNCHANGED <<ident, leave_failed>>
    /\ UNCHANGED <<env_vars, auth, clients, apps, logins, scope_vars, drain_vars, notices,
                   trouble, server_vars, chat_name, last_home, last_notif,
                   muted_home, muted_notif, hashtags_last, thread_vars, hist_vars>>

\* False not in [tag.startswith('#') for tag in re.split(r'[ ,]+', name)]
ValidName(name) == \A i \in DOMAIN name : name[i].hash

\* on_added for the hashtag conversation when it has no row: the
\* conversation is not a home, notifications or direct-message one; with one
\* contact besides the bot in it and a name of '#' tokens only it gets its
\* Hashtags row.
OnAdded ==
    /\ "tags" \in member
    /\ "hashtags" \notin rows
    /\ ValidName(chat_name)
    /\ rows' = rows \cup {"hashtags"}
    /\ hashtags_last' = <<>>
    /\ UNCHANGED <<env_vars, hook_vars, scope_vars, drain_vars, member, notices, leave_failed,
                   trouble, server_vars, chat_name, last_home, last_notif,
                   muted_home, muted_notif, dmchats, thread_vars, hist_vars>>

\* What A's principal may do about the account besides muting: in a run
\* about logins, log in, answer with an authorization code and log out; in a
\* run about conversations, log out, abandon a conversation, open a hashtag
\* or a direct-message one; in a run about failing checks, ask for an OAuth
\* login at the instance of the account and open direct-message conversations.
Hooks ==
    \/ /\ focus = "login"
       /\ \/ \E url \in Urls, password \in BOOLEAN, uname \in Users,
                registers \in BOOLEAN, ok \in BOOLEAN :
                  LoginCmd(url, password, uname, registers, ok)
          \/ \E uname \in Users, ok \in BOOLEAN : CodeMsg(uname, ok)
          \/ LogoutCmd
    \/ /\ focus = "chats"
       /\ \/ LogoutCmd
          \/ \E chat \in BoundChats \cup Range(DmChatIds) : Removed(chat)
          \/ OnAdded
          \/ \E acct \in Correspondents : DmCmd(acct)
    \/ /\ focus = "errors"
       /\ \/ \E url \in {u \in Urls : u = ident.url} :
                  LoginCmd(url, FALSE, ident.user, TRUE, TRUE)
          \/ \E acct \in Correspondents : DmCmd(acct)

\* ---------------------------------------------------------- specifications
Poll ==
    \/ CollectWork \/ NextUnit \/ OtherUnit
    \/ NotifFetch \/ DmSend \/ DmLookupMiss \/ DmCreate \/ NotifSend \/ MentionSend
    \/ CheckHomeMuted \/ HomeFetch \/ HomeSend
    \/ TagsRead \/ TagFetch \/ TagSend \/ TagPersist
    \/ Raise \/ HandleTransient \/ HandleOther \/ HandleUnauthorized
    \/ Relisten \/ EndSweep \/ Wake

Environment == PostHome \/ PostNotif \/ PostTag \/ Rename \/ Break \/ Heal

Commands ==
    \/ \E chat \in {focus, "other"} : MuteCmd(chat) \/ UnmuteCmd(chat)
    \/ focus = "notif" /\ (DmCmd("bob") \/ LogoutCmd)
    \/ Hooks

\* Sweeps, with restarts of the process, against a growing server.
NextSweeps == Poll \/ Environment \/ Restart

\* Sweeps interleaved with the command path.
Next == Poll \/ Environment \/ Restart \/ Commands

\* The poll thread and the command path; the client honours the API contract.
Spec == Init /\ [][Next]_vars

\* The poll thread alone; the client honours the API contract.
SpecSweeps == Init /\ [][NextSweeps]_vars

\* The poll thread alone; the client may return stale, reordered or partial
\* lists.
SpecInjected == InitInjected /\ [][NextSweeps]_vars

\* The sweeps of an account whose server sends notifications of every type.
NextKinds ==
    \/ PostNotif
    \/ CollectWork \/ NotifFetch \/ StatusMissing \/ NotifSend \/ MentionSend
    \/ HomeFetch \/ TagsRead \/ TagFetch \/ TagPersist
    \/ HandleOther \/ Relisten \/ EndSweep \/ Wake

SpecKinds == InitFor("kinds") /\ faults = FALSE /\ [][NextKinds]_vars

\* The handlers of A's principal and the sweeps of a server without news,
\* which may be in trouble.
QuietPoll ==
    \/ CollectWork \/ NextUnit \/ OtherUnit
    \/ NotifFetch \/ HomeFetch \/ TagsRead \/ TagFetch \/ TagPersist
    \/ Raise \/ HandleTransient \/ HandleOther \/ HandleUnauthorized
    \/ Relisten \/ EndSweep \/ Wake

NextHooks == QuietPoll \/ Hooks \/ Break \/ Heal \/ Rename

SpecHooks ==
    /\ \E scenario \in {"login", "chats", "errors"} : InitFor(scenario)
    /\ faults = FALSE
    /\ [][NextHooks]_vars

\* ------------------------------------------------------------------ claims
\* The checks that deliver the batch held in `toots`.
InNotifDelivery == pc \in {"dms", "dm_create", "notif_groups", "notif_mentions"}

\* C1: after a home or notifications fetch, a non-empty response has moved
\* the feed's stored cursor to the id of its first item in response order,
\* with a store write; an empty response has left the cursor as the unit's
\* snapshot read it, with no store write for the feed.
C1_CursorIsFirstOfResponse ==
    /\ (InNotifDelivery \/ pc = "home") =>
          IF toots # <<>>
          THEN last_notif = toots[1].id /\ "last_notif" \in writes
          ELSE last_notif = snap.last_notif /\ "last_notif" \notin writes
    /\ pc \in {"home_send", "hashtags"} =>
          IF toots # <<>>
          THEN last_home = toots[1].id /\ "last_home" \in writes
          ELSE last_home = snap.last_home /\ "last_home" \notin writes

\* C1 witness: a home response whose first item is not its largest id has
\* been committed.
C1_Witness ==
    /\ pc = "home_send"
    /\ Len(toots) >= 2
    /\ toots[1].id < toots[2].id
    /\ last_home = toots[1].id

\* C2: when _check_home has gone through a non-empty batch without
\* self-mentions, every item of the batch was sent once, oldest first, and
\* the home cursor is the first id of the response, attachments or not.
C2_HomeBatchDeliveredOldestFirst ==
    (/\ pc = "hashtags"
     /\ toots # <<>>
     /\ \A i \in DOMAIN toots : ~toots[i].mentions_me)
    => /\ sent = Reverse(IdsOf(toots))
       /\ last_home = toots[1].id

C4_NoHomeItemTwice == twice["home"] = {}

C6_BlobPersistedBeforeDelivery ==
    /\ pc = "tag_send" => hashtags_last = newlasts
    /\ (pc = "unit_done" /\ resps # <<>>) => hashtags_last = newlasts

\* C6: while a hashtag batch is being delivered the store still holds the
\* cursor map the check read; the map is written after the delivery loop
\* only, so a check that a failed send ended leaves the map as it was and the
\* next sweep fetches with the same bounds.
C6_BlobPersistedAfterDelivery ==
    /\ pc \in {"tag_fetch", "tag_send", "tag_persist"} =>
          hashtags_last = lasts /\ "hashtags_last" \notin writes
    /\ (pc = "unit_done" /\ resps # <<>> /\ "hashtags_last" \notin writes) =>
          hashtags_last = lasts
    /\ (pc = "unit_done" /\ "hashtags_last" \in writes) =>
          hashtags_last = newlasts /\ pending = <<>>

\* C6 witness: a hashtag check that sent one message and failed on the next
\* ended with the stored map unchanged although a tag had new items.
C6_Witness ==
    /\ pc = "unit_done"
    /\ resps # <<>>
    /\ "hashtags_last" \notin writes
    /\ sent # <<>>
    /\ hashtags_last = lasts
    /\ newlasts # lasts

\* C7: every tag of the conversation name is fetched with its own stored
\* cursor as min_id (None when it has none) and gets only that tag's items
\* above it; when the check has persisted, the stored map holds exactly the
\* tags of the name, each with the first id of its own response or, the
\* response being empty, its previous value.
C7_PerTagCursors ==
    /\ \A tag \in DOMAIN resps :
         /\ resps[tag].min_id = Get(lasts, tag)
         /\ \A i \in DOMAIN resps[tag].toots :
              /\ resps[tag].toots[i].id > Get(lasts, tag)
              /\ tag \in resps[tag].toots[i].tags
    /\ pc \in {"tag_fetch", "tag_send", "tag_persist"} => lasts = hashtags_last
    /\ (pc = "unit_done" /\ "hashtags_last" \in writes) =>
         /\ DOMAIN hashtags_last = Range(TagsOf(chat_name))
         /\ DOMAIN resps = Range(TagsOf(chat_name))
         /\ \A tag \in DOMAIN hashtags_last :
              hashtags_last[tag] = IF resps[tag].toots # <<>>
                                   THEN resps[tag].toots[1].id
                                   ELSE Get(lasts, tag)

\* C7 witness: a persisted check in which tag a advanced while tag b, whose
\* response was empty, kept the cursor it had.
C7_Witness ==
    /\ pc = "unit_done"
    /\ "hashtags_last" \in writes
    /\ DOMAIN resps = {"a", "b"}
    /\ resps["a"].toots # <<>>
    /\ resps["b"].toots = <<>>
    /\ Get(lasts, "b") # None
    /\ hashtags_last["b"] = lasts["b"]
    /\ hashtags_last["a"] # Get(lasts, "a")

\* The ids the tags' responses of the running hashtag check hold.
FetchedIds == UNION {Range(IdsOf(resps[tag].toots)) : tag \in DOMAIN resps}

\* C8: the merged batch of a hashtag check holds every id some tag returned,
\* each exactly once, and no id is sent twice within the check.
C8_MergedOnce ==
    pc \in {"tag_fetch", "tag_send", "tag_persist"} =>
        /\ Range(IdsOf(toots)) = FetchedIds
        /\ \A i, j \in DOMAIN toots : toots[i].id = toots[j].id => i = j
        /\ \A i, j \in DOMAIN sent : sent[i] = sent[j] => i = j

\* C8 witness: both tags returned the same status and the batch holds two
\* items.
C8_Witness ==
    /\ pc = "tag_send"
    /\ DOMAIN resps = {"a", "b"}
    /\ Range(IdsOf(resps["a"].toots)) \cap Range(IdsOf(resps["b"].toots)) # {}
    /\ Len(toots) = 2

\* C9: of two items a hashtag check has sent, the one with the earlier time
\* (edit time if present, else creation time) was sent first.
C9_AscendingDelivery ==
    pc \in {"tag_send", "tag_persist"} =>
        \A i, j \in DOMAIN sent :
            i < j => SortKey(tag_tl[sent[i]]) <= SortKey(tag_tl[sent[j]])

\* The positions in `sent` of the grouped notification messages, and the
\* ids of the entries of the batch of one type (and one status).
GroupMsgs == {i \in DOMAIN sent : sent[i].kind = "group"}

EntryIds(type, status) ==
    {toots[i].id : i \in {j \in DOMAIN toots :
                             toots[j].type = type /\ toots[j].status = status}}

PosOf(id) == CHOOSE i \in DOMAIN toots : toots[i].id = id

\* Exactly one grouped message carries entries of E, and it carries all of E.
OneGroup(E) ==
    E # {} =>
        /\ Cardinality({i \in GroupMsgs : Range(sent[i].ids) \cap E # {}}) = 1
        /\ \A i \in GroupMsgs : Range(sent[i].ids) \cap E # {} => Range(sent[i].ids) = E

\* C10: with the mute flag off, a notifications check that ran through has
\* sent one grouped message per reblogged status with all its reblog entries,
\* one per favourited status with all its favourite entries, and one with all
\* follow entries; inside a message the entries are oldest first (the
\* reverse of the response order).
C10_Grouping ==
    (pc = "home" /\ ~snap.muted_notif) =>
        /\ \A type \in {"reblog", "favourite"} :
             \A status \in {toots[i].status : i \in DOMAIN toots} :
                OneGroup(EntryIds(type, status))
        /\ OneGroup(EntryIds("follow", None))
        /\ \A i \in GroupMsgs :
             \A a, b \in DOMAIN sent[i].ids :
                a < b => PosOf(sent[i].ids[a]) > PosOf(sent[i].ids[b])

\* C10 witness: two reblogs of one status went out as one message.
C10_Witness ==
    /\ pc = "home"
    /\ ~snap.muted_notif
    /\ \E i \in GroupMsgs :
         /\ Len(sent[i].ids) = 2
         /\ \A j \in DOMAIN toots : toots[j].type = "reblog"

\* How often the entry with this id is in a list of entries.
CountIn(seq, id) == Cardinality({j \in DOMAIN seq : seq[j].id = id})

\* The classification of the batch in `toots` under the unit's mute flag.
BatchDms == Dms(toots)

BatchNotifs == Notifications(toots, snap.muted_notif)

\* The positions in `sent` of the messages of one kind that carry this id.
MsgsOf(kind, id) ==
    {i \in DOMAIN sent : sent[i].kind = kind /\ id \in Range(sent[i].ids)}

\* C11: a mention with direct visibility, one mentioned account and no
\* blocklisted text is once among the direct messages and neither among the
\* plain mentions nor in a group, mute flag on or off; a check that ran
\* through has sent it as one direct message and as no mention.
C11_DirectOnly ==
    (InNotifDelivery \/ pc = "home") =>
        \A i \in DOMAIN toots :
            (IsDirect(toots[i]) /\ ~toots[i].spam) =>
                /\ CountIn(BatchDms, toots[i].id) = 1
                /\ CountIn(Mentions(BatchNotifs), toots[i].id) = 0
                /\ \A g \in Range(Grouped(BatchNotifs)) : CountIn(g, toots[i].id) = 0
                /\ pc = "home" =>
                      /\ Cardinality(MsgsOf("dm", toots[i].id)) = 1
                      /\ MsgsOf("mention", toots[i].id) = {}
                      /\ MsgsOf("group", toots[i].id) = {}

\* C11 witness: a muted check that ran through sent a direct message.
C11_Witness ==
    /\ pc = "home"
    /\ snap.muted_notif
    /\ \E i \in DOMAIN toots :
         IsDirect(toots[i]) /\ MsgsOf("dm", toots[i].id) # {}

\* C12: a muted notifications check that ran through sent no grouped
\* message, and sent every mention entry of the batch (blocklisted ones
\* aside).
C12_MutedKeepsMentions ==
    (pc = "home" /\ snap.muted_notif) =>
        /\ GroupMsgs = {}
        /\ \A i \in DOMAIN toots :
             (toots[i].type = "mention" /\ ~toots[i].spam) =>
                 toots[i].id \in SentIds(sent)

\* C13 as stated: every mention entry is once in exactly one of the direct
\* messages and the plain mentions; one that fails the direct-message rule,
\* blocklisted text included, is a plain mention.
C13_MentionNeverDropped ==
    (InNotifDelivery \/ pc = "home") =>
        \A i \in DOMAIN toots :
            toots[i].type = "mention" =>
                /\ CountIn(BatchDms, toots[i].id)
                     + CountIn(Mentions(BatchNotifs), toots[i].id) = 1
                /\ ~(IsDirect(toots[i]) /\ ~toots[i].spam) =>
                      CountIn(Mentions(BatchNotifs), toots[i].id) = 1

\* C13: a mention entry that is not direct with one mentioned account is once
\* among the plain mentions and not a direct message; one that is, without
\* blocklisted text, is once a direct message and no plain mention; one that
\* is, with blocklisted text, is in neither group.
C13_MentionClassified ==
    (InNotifDelivery \/ pc = "home") =>
        \A i \in DOMAIN toots :
            toots[i].type = "mention" =>
                LET t == toots[i]
                    direct == t.visibility = "direct" /\ t.nmentions = 1
                    asDm == CountIn(BatchDms, t.id)
                    asMention == CountIn(Mentions(BatchNotifs), t.id)
                IN  /\ ~direct => asDm = 0 /\ asMention = 1
                    /\ (direct /\ ~t.spam) => asDm = 1 /\ asMention = 0
                    /\ (direct /\ t.spam) => asDm = 0 /\ asMention = 0

\* C13 witness: a batch with a blocklisted direct mention, which is dropped,
\* and a direct mention of two accounts, which is a plain mention.
C13_Witness ==
    /\ pc = "notif_mentions"
    /\ \E i, j \in DOMAIN toots :
         /\ toots[i].visibility = "direct" /\ toots[i].nmentions = 1 /\ toots[i].spam
         /\ toots[j].visibility = "direct" /\ toots[j].nmentions = 2
         /\ pending = <<toots[j]>>

\* C14: the store holds at most one DmChat row for an account and a
\* correspondent, however the poll path and the /dm command interleave when
\* they resolve the same correspondent.
C14_OneRowPerCorrespondent ==
    \A r1 \in dmchats, r2 \in dmchats : r1.contact = r2.contact => r1 = r2

\* C15: once the Unauthorized handler has removed account A, the store
\* holds no row of A's principal (no Account, DmChat, Hashtags or OAuth row),
\* and a handler that ran to its end has sent the principal one message
\* announcing the logout.
C15_TeardownRemovesEveryRow ==
    "account" \notin rows =>
        /\ rows = {} /\ dmchats = {}
        /\ pc = "unit_done" => notices.logout = 1

\* C16: once the Unauthorized handler has removed account A, the bot is a
\* member of no conversation bound to A (home, notifications, direct-message
\* and hashtag conversations) except those whose leave request failed.
C16_TeardownLeavesEveryChat ==
    "account" \notin rows => member \subseteq leave_failed

\* C17: the handler of a transient error ends the unit of work and nothing
\* else: no message to the principal, no row of the account deleted, no
\* conversation left, and the units the sweep still has to do are kept.
C17_TransientAbortsUnitOnly ==
    [][pc = "transient" =>
          \/ /\ pc' = "unit_done"
             /\ UNCHANGED <<rows, dmchats, member, notices, leave_failed, queue>>
          \/ Restart]_vars

\* C17 witness: the unit of account A has ended on a transient error with the
\* account intact and nothing told to the principal, and the unit of the
\* other account is next in the sweep.
C17_Witness ==
    /\ pc = "unit_done"
    /\ trouble = "transient"
    /\ queue = <<"B">>
    /\ "account" \in rows
    /\ notices = [logout |-> 0, error |-> 0]

\* C18: for as long as one unexpected fault of A's server lasts, the
\* principal gets the error message about it at most once, over all sweeps.
C18_ErrorReportedOnce ==
    trouble = "unexpected" => notices.error <= 1

\* C19: when an exception leaves the sweep, no unit of work that the sweep
\* had collected is left undone.
C19_NoUnitLostToAFailure ==
    pc = "escaped" => queue = <<>>

\* C20: when a send to the home conversation has failed, every status of
\* the batch that was to be delivered has had its delivery attempt: it was
\* sent before, or it is the one whose send failed.
C20_RestOfBatchAttempted ==
    (pc = "unexpected" /\ focus = "home" /\ failed_id # None) =>
        \A i \in DOMAIN toots :
            ~toots[i].mentions_me => toots[i].id \in Range(sent) \cup {failed_id}

\* The step of the unit of work of account A a position belongs to: 1 the
\* notifications check, 2 the home check, 3 the hashtag check, 0 none.
StepOf(p) ==
    CASE p \in {"notif", "dms", "dm_create", "notif_groups", "notif_mentions"} -> 1
      [] p \in {"home", "home_send"} -> 2
      [] p \in {"hashtags", "tag_fetch", "tag_send", "tag_persist"} -> 3
      [] OTHER -> 0

\* C29: a unit of work starts with the notifications check, goes on to the
\* home check and from there to the hashtag check, never back and never
\* past one of them, and ends normally from the hashtag check only; with the
\* snapshot's home-muted flag set the home check goes straight on to the
\* hashtag check, fetching nothing and leaving the stored home cursor alone;
\* once an exception is being handled no check of the unit runs any more.
C29_StepsInOrder ==
    [][\/ Restart
       \/ /\ (StepOf(pc) = 0 /\ StepOf(pc') > 0) =>
                 pc \in {"collect", "unit_done"} /\ pc' = "notif"
          /\ (StepOf(pc) > 0 /\ StepOf(pc') > 0) =>
                 StepOf(pc') \in {StepOf(pc), StepOf(pc) + 1}
          /\ (StepOf(pc) > 0 /\ pc' = "unit_done") => StepOf(pc) = 3
          /\ (pc = "home" /\ snap.muted_home) =>
                 /\ pc' = "hashtags"
                 /\ toots' = <<>>
                 /\ last_home' = last_home
                 /\ "last_home" \notin writes'
          /\ pc \in Troubles => pc' \in {"unit_done", "escaped"}]_vars

\* C29 witness: the home check of a muted snapshot was passed over while the
\* server had home items, and the hashtag check is about to run with the
\* home cursor as the snapshot read it.
C29_Witness ==
    /\ pc = "hashtags"
    /\ snap.muted_home
    /\ home_tl # <<>>
    /\ last_home = snap.last_home
    /\ "last_home" \notin writes

\* C28: while the store says that the home timeline is muted, no status is
\* sent to the home conversation, whatever the sweep in progress had
\* snapshotted before the /mute.
C28_NoHomeDeliveryWhileMuted ==
    [][(muted_home /\ pc = "home_send") => Len(sent') <= Len(sent)]_vars

\* C30: a sweep collects its work right after the sleep of the sweep before
\* it, on every path; only the first sweep of a started process has no sleep
\* before it.
C30_IdleBeforeCollect ==
    [][(pc # "collect" /\ pc' = "collect") => (pc = "idle" \/ Restart)]_vars

\* ------------------------------------------------- the drain of a sweep
\* The Account rows of four principals at three instances.
AccountRows == {[id |-> 1, url |-> "X"], [id |-> 2, url |-> "X"],
                [id |-> 3, url |-> "Y"], [id |-> 4, url |-> "Z"]}

\* instances.setdefault(acc.url, []).append(...): the row goes to the end of
\* the list of its instance; a new instance goes to the end of the dict.
Appended(dict, acc) ==
    IF \E i \in DOMAIN dict : dict[i].url = acc.url
    THEN [i \in DOMAIN dict |->
            IF dict[i].url = acc.url
            THEN [dict[i] EXCEPT !.units = Append(@, acc)]
            ELSE dict[i]]
    ELSE Append(dict, [url |-> acc.url, units |-> <<acc>>])

\* The dict built by `for acc in session.query(Account)` from the rows in
\* the order the query returned them.
RECURSIVE ByInstance(_)
ByInstance(order) ==
    IF order = <<>> THEN <<>>
    ELSE Appended(ByInstance(SubSeq(order, 1, Len(order) - 1)), order[Len(order)])

\* list(instances.keys())
Keys(dict) == [i \in DOMAIN dict |-> dict[i].url]

\* instances[key]
UnitsOf(dict, key) == (CHOOSE e \in Range(dict) : e.url = key).units

\* instances[key].pop(), and instances.pop(key) when the list is empty.
Popped(dict, key) ==
    LET rest == [i \in DOMAIN dict |->
                    IF dict[i].url = key
                    THEN [dict[i] EXCEPT !.units = SubSeq(@, 1, Len(@) - 1)]
                    ELSE dict[i]]
    IN  SelectSeq(rest, LAMBDA e : e.units # <<>>)

\* collect-work with several instances: the snapshot transaction builds the
\* dict, and `while instances` starts the first round; the transaction, or
\* get_all_account_ids before it, may raise.
DrainCollect ==
    /\ pc = "collect"
    /\ \E ok \in BOOLEAN, order \in Arrangements(AccountRows) :
         IF ok
         THEN /\ instances' = ByInstance(order)
              /\ round' = Keys(ByInstance(order))
              /\ collected' = AccountRows
              /\ processed' = <<>> /\ served' = <<>>
              /\ pc' = "round"
         ELSE /\ pc' = "escaped"
              /\ UNCHANGED drain_vars
    /\ UNCHANGED <<env_vars, hook_vars, scope_vars, acct_vars, server_vars,
                   chat_name, store_vars, queue, snap, toots, pending, sent,
                   failed_id, writes, tag_vars, hist_vars>>

\* `for key in list(instances.keys())`, one turn up to the try statement.
TakeUnit ==
    /\ pc = "round"
    /\ round # <<>>
    /\ LET key == Head(round)
           units == UnitsOf(instances, key)
       IN  /\ processed' = Append(processed, [acc |-> units[Len(units)],
                                               outcome |-> "running"])
           /\ served' = Append(served, key)
           /\ instances' = Popped(instances, key)
    /\ round' = Tail(round)
    /\ pc' = "unit"
    /\ UNCHANGED <<env_vars, hook_vars, scope_vars, acct_vars, server_vars,
                   chat_name, store_vars, queue, snap, toots, pending, sent,
                   failed_id, writes, tag_vars, collected, hist_vars>>

\* The try statement of the unit: it ends normally or in one of its except
\* clauses, or the report of an except clause raises and the exception
\* leaves _check_mastodon.
RunUnit ==
    /\ pc = "unit"
    /\ \E escapes \in BOOLEAN :
         /\ pc' = IF escapes THEN "escaped" ELSE "round"
         /\ processed' = [processed EXCEPT ![Len(processed)].outcome =
                             IF escapes THEN "escaped" ELSE "over"]
    /\ UNCHANGED <<env_vars, hook_vars, scope_vars, acct_vars, server_vars,
                   chat_name, store_vars, queue, snap, toots, pending, sent,
                   failed_id, writes, tag_vars, instances, round, served,
                   collected, hist_vars>>

\* The for loop is over: time.sleep(2).
EndRound ==
    /\ pc = "round"
    /\ round = <<>>
    /\ pc' = "pause"
    /\ UNCHANGED <<env_vars, hook_vars, scope_vars, drain_vars, acct_vars,
                   server_vars, chat_name, store_vars, queue, snap, toots,
                   pending, sent, failed_id, writes, tag_vars, hist_vars>>

\* `while instances`: another round over the keys that are left, or the
\* sweep is over and sleeps for max(interval - elapsed, 10) seconds.
NextRound ==
    /\ pc = "pause"
    /\ IF instances # <<>>
       THEN /\ round' = Keys(instances)
            /\ served' = <<>>
            /\ pc' = "round"
       ELSE /\ pc' = "idle"
            /\ UNCHANGED <<round, served>>
    /\ UNCHANGED <<env_vars, hook_vars, scope_vars, acct_vars, server_vars,
                   chat_name, store_vars, queue, snap, toots, pending, sent,
                   failed_id, writes, tag_vars, instances, processed,
                   collected, hist_vars>>

NextDrain ==
    \/ DrainCollect \/ TakeUnit \/ RunUnit \/ EndRound \/ NextRound
    \/ Relisten \/ Wake

\* The sweeps of the poll thread over several instances.
SpecDrain == InitFor("drain") /\ faults = FALSE /\ [][NextDrain]_vars

\* The same, with a poll thread that is never stopped: time.sleep returns
\* and every call of the unit returns or raises.
SpecDrainFair == SpecDrain /\ WF_vars(NextDrain)

\* --------------------------------------------------------- session_scope
\* Two threads use session_scope; what a body writes is a set of numbered
\* writes, and db holds the writes that were committed.
others_vars == <<env_vars, hook_vars, acct_vars, server_vars, chat_name,
                 store_vars, thread_vars, drain_vars, hist_vars>>

\* A faulty lock: it is handed to whoever asks.
LockIgnored == TRUE

\* _lock can be acquired.
LockFree == lock = "free"

\* A thread that asks for _lock inside a body as well as outside of one.
Anywhere(t) == phase[t] \in {"out", "body"}

\* No body of a session_scope block opens another one, by itself or by a
\* function it calls: a thread reaches the with statement outside of any.
Outside(t) == phase[t] = "out"

\* The thread is inside a body, maybe in a call that the body makes.
InBody(t) == phase[t] \in {"body", "call"}

\* The bodies of the handlers call the chat transport and the social API
\* (send_msg, get_chat_contacts, create_group_chat, get_client's create_app);
\* the bodies of the poll thread read and write the store only.
CallsInBody(t) == t = "hooks"

\* A thread reaches `with session_scope() as session` and blocks on _lock.
Request(t) ==
    /\ Outside(t)
    /\ phase' = [phase EXCEPT ![t] = "waiting"]
    /\ UNCHANGED <<lock, work, db, ended, nwrites, others_vars>>

\* with _lock: session = _Session(); the body starts with a new session.
Acquire(t) ==
    /\ phase[t] = "waiting"
    /\ LockFree
    /\ lock' = t
    /\ phase' = [phase EXCEPT ![t] = "body"]
    /\ work' = [work EXCEPT ![t] = {}]
    /\ UNCHANGED <<db, ended, nwrites, others_vars>>

\* The body adds, changes or deletes something through its session.
Write(t) ==
    /\ phase[t] = "body"
    /\ nwrites < MaxWrites
    /\ nwrites' = nwrites + 1
    /\ work' = [work EXCEPT ![t] = @ \cup {nwrites + 1}]
    /\ UNCHANGED <<lock, phase, db, ended, others_vars>>

\* A faulty rollback: what the session wrote reaches the database.
RollbackKeeping(t) == db \cup work[t]

\* session.rollback(): the database is what it was.
Rollback(t) == db

\* The way out of the with block: session.close() and the lock released.
Leave(t, body, outcome) ==
    /\ lock' = "free"
    /\ phase' = [phase EXCEPT ![t] = "out"]
    /\ ended' = [ended EXCEPT ![t] = [body |-> body, outcome |-> outcome,
                                      writes |-> work[t]]]
    /\ work' = [work EXCEPT ![t] = {}]

\* The body ends, at its last statement or by a return: session.commit()
\* follows, and when the commit raises, the except clause rolls back and
\* raises again.
BodyEnds(t) ==
    /\ phase[t] = "body"
    /\ \E body \in {"normal", "returned"}, commits \in BOOLEAN :
         IF commits
         THEN /\ db' = db \cup work[t]
              /\ Leave(t, body, "committed")
         ELSE /\ db' = Rollback(t)
              /\ Leave(t, body, "raised")
    /\ UNCHANGED <<nwrites, others_vars>>

\* The body raises: except Exception: session.rollback(); raise.
BodyRaises(t) ==
    /\ phase[t] = "body"
    /\ db' = Rollback(t)
    /\ Leave(t, "raised", "raised")
    /\ UNCHANGED <<nwrites, others_vars>>

\* A statement of the body calls the chat transport or the social API.
CallOut(t) ==
    /\ phase[t] = "body"
    /\ CallsInBody(t)
    /\ phase' = [phase EXCEPT ![t] = "call"]
    /\ UNCHANGED <<lock, work, db, ended, nwrites, others_vars>>

\* The call returns and the body goes on, or it raises and the exception of
\* the call leaves the body: except Exception: session.rollback(); raise.
CallBack(t) ==
    /\ phase[t] = "call"
    /\ \E ok \in BOOLEAN :
         IF ok
         THEN /\ phase' = [phase EXCEPT ![t] = "body"]
              /\ UNCHANGED <<lock, work, db, ended>>
         ELSE /\ db' = Rollback(t)
              /\ Leave(t, "call_raised", "raised")
    /\ UNCHANGED <<nwrites, others_vars>>

NextScope ==
    \E t \in Threads :
        \/ Request(t) \/ Acquire(t) \/ Write(t) \/ BodyEnds(t) \/ BodyRaises(t)
        \/ CallOut(t) \/ CallBack(t)

SpecScope == InitFor("scope") /\ faults = FALSE /\ [][NextScope]_vars

\* C21, as stated: a body that ended normally or by a return has all its
\* writes in the database; the writes of a body that raised are not there
\* and the caller got the error; the lock is not held by a thread that left.
C21_BodyEndCommits ==
    \A t \in Threads :
        /\ ended[t].body \in {"normal", "returned"} =>
              (ended[t].outcome = "committed" /\ ended[t].writes \subseteq db)
        /\ ended[t].body \in {"raised", "call_raised"} =>
              (ended[t].outcome = "raised" /\ ended[t].writes \cap db = {})
        /\ phase[t] \in {"out", "waiting"} => lock # t

\* C21, amended: a transaction that was committed has all its writes in the
\* database; one that raised, in the body or in the commit after a body that
\* ended normally, has none of them there; a body that raised gave the error
\* to the caller; the lock is not held by a thread that left.
C21_AllOrNothing ==
    \A t \in Threads :
        /\ ended[t].outcome = "committed" => ended[t].writes \subseteq db
        /\ ended[t].outcome = "raised" => ended[t].writes \cap db = {}
        /\ ended[t].body \in {"normal", "returned"} =>
              ended[t].outcome \in {"committed", "raised"}
        /\ ended[t].body \in {"raised", "call_raised"} =>
              ended[t].outcome = "raised"
        /\ phase[t] \in {"out", "waiting"} => lock # t

\* A transaction with writes failed in its commit, and the transaction after
\* it, of the other thread, was committed with writes of its own.
C21_Witness ==
    \E t, u \in Threads :
        /\ ended[t].body = "normal" /\ ended[t].outcome = "raised"
        /\ ended[t].writes # {}
        /\ ended[u].outcome = "committed" /\ ended[u].writes # {}
        /\ \A w \in ended[t].writes, x \in ended[u].writes : w < x
        /\ lock = "free"

\* C22: at most one thread is inside a transaction, the one that holds the
\* lock, and a session with writes belongs to that thread.
C22_OneTransactionInFlight ==
    /\ Cardinality({t \in Threads : InBody(t)}) <= 1
    /\ \A t \in Threads : InBody(t) => lock = t
    /\ \A t \in Threads : work[t] # {} => lock = t

\* The command thread waits for the lock while the poll thread is inside a
\* transaction that has written.
C22_Witness ==
    /\ phase["poll"] = "body" /\ work["poll"] # {}
    /\ phase["hooks"] = "waiting"
    /\ lock = "poll"

\* ------------------------------------------------ the principal's handlers
\* C23: a login of a principal who has an account leaves the account in
\* place, at its instance and under its identity, and the credential it may
\* put into the account is one of that identity at that instance.
C23_LoginKeepsTheAccount ==
    [][("account" \in rows /\ logins' # logins) =>
          /\ "account" \in rows'
          /\ ident'.url = ident.url
          /\ ident'.user = ident.user
          /\ ident'.token.url = ident.url
          /\ ident'.token.user = ident.user]_vars

\* C24: a step that destroys the account destroys every direct-message row
\* with it; a step that destroys one direct-message row or the hashtag row
\* of a standing account destroys that row only and leaves the account as
\* it is.
C24_RowsGoWithTheAccountOnly ==
    [][/\ ("account" \in rows /\ "account" \notin rows') => dmchats' = {}
       /\ ("account" \in rows' /\ dmchats' # dmchats /\ dmchats' \subseteq dmchats) =>
              /\ Cardinality(dmchats \ dmchats') = 1
              /\ rows' = rows
              /\ UNCHANGED <<ident, last_home, last_notif, muted_home,
                             muted_notif, hashtags_last>>
       /\ ("account" \in rows' /\ "hashtags" \in rows /\ "hashtags" \notin rows') =>
              /\ dmchats' = dmchats
              /\ rows' = rows \ {"hashtags"}
              /\ ident' = ident]_vars

\* The row of the second direct-message conversation stands alone under the
\* account: the first conversation was abandoned on its own.
C24_Witness ==
    /\ "account" \in rows
    /\ "hashtags" \in rows
    /\ dmchats # {}
    /\ \A r \in dmchats : r.chat_id = DmChatIds[2]

\* C25: the name of a conversation that has a Hashtags row consists of
\* tokens that start with '#' only, also after it was renamed.
C25_WatchedNameIsAllTags ==
    "hashtags" \in rows => ValidName(chat_name)

\* C26: a step that completes a login of the principal (it puts a credential
\* into the account, new or standing) leaves no OAuth row of the principal.
C26_NoneLeftAfterLogin ==
    [][(logins' # logins /\ ident'.token # ident.token) =>
          (auth' = NoAuth /\ "oauth" \notin rows')]_vars

\* C27: the Client row of an instance, once there, is never changed nor
\* deleted and no further application is registered at the instance; a row
\* appears with a login only, and the pair a login-intent records is the
\* stored one.
C27_ClientKeptAndReused ==
    [][\A u \in Urls :
          /\ clients[u].row =>
                (clients'[u] = clients[u] /\ apps'[u] = apps[u])
          /\ (~clients[u].row /\ clients'[u].row) =>
                (logins' # logins /\ apps'[u] <= 1)
          /\ (auth' # auth /\ auth'.url = u) =>
                (clients'[u].row /\ auth'.pair = clients'[u].pair)]_vars

\* An OAuth login to Y is asked for by a principal whose account is at Y:
\* the login that made the account left Y's Client row, the later one used it.
C27_Witness ==
    /\ "account" \in rows /\ ident.url = "Y"
    /\ "oauth" \in rows /\ auth.url = "Y"
    /\ auth.pair = clients["Y"].pair
    /\ apps["Y"] = 1

C40_StoredPairIsRegistered ==
    \A u \in Urls : clients[u].row => clients[u].pair # None

\* C37: once the Account row of the principal is gone, no step of the poll
\* thread sends the principal a message about the account and none adds a
\* row under it.
C37_StaleUnitIsSilent ==
    [][("account" \notin rows /\ thread_vars' # thread_vars) =>
          /\ notices' = notices
          /\ dmchats' \subseteq dmchats
          /\ rows' \subseteq rows]_vars

\* C38: a message rendered as a mention during the notifications check
\* carries an entry of type mention.
C38_MentionGroupIsTyped ==
    \A i \in DOMAIN sent :
        sent[i].kind = "mention" =>
            \E j \in DOMAIN toots :
                toots[j].id = sent[i].ids[1] /\ toots[j].type = "mention"

\* C35: the conversation a direct message was delivered to is the one every
\* DmChat row of its correspondent names, so that the messages to come are
\* resolved to it.
C35_OneConversationPerCorrespondent ==
    pc \in {"dms", "dm_create", "notif_groups", "notif_mentions"} =>
        \A i \in DOMAIN sent :
            sent[i].kind = "dm" =>
                \A r \in DmRows(sent[i].acct) : r.chat_id = sent[i].chat

\* C34, as stated: a thread that holds the store lock is in no call of the
\* chat transport and in no call of the social API, in the poll thread and
\* in every command handler.
C34_NoCallUnderLock ==
    \A t \in Threads : lock = t => phase[t] # "call"

\* C39: the store lock cannot deadlock: a thread that waits for the lock is
\* not the one that holds it, the holder is inside a body that it can leave,
\* and a thread that leaves its body, on any path, leaves the lock free.
C39_NoSelfDeadlock ==
    /\ [](\A t \in Threads :
            /\ phase[t] = "waiting" => lock # t
            /\ lock = t => InBody(t))
    /\ [][\A t \in Threads :
            (InBody(t) /\ phase'[t] \notin {"body", "call"}) =>
                (phase'[t] = "out" /\ lock' = "free")]_vars

\* The command thread, after a transaction that raised, is in the next
\* transaction of its handler while the poll thread waits for the lock.
C39_Witness ==
    /\ ended["hooks"].outcome = "raised"
    /\ phase["hooks"] = "body" /\ lock = "hooks"
    /\ phase["poll"] = "waiting"
    /\ ended["poll"].outcome = "committed"

\* C31, as stated: in a round no instance gets a second unit, and an
\* instance that has units left after the round got one in it; when the
\* sweep is left, every account of its snapshot has been processed once.
C31_EachUnitOnceInTurn ==
    /\ \A i, j \in DOMAIN served : served[i] = served[j] => i = j
    /\ pc = "pause" => \A e \in Range(instances) : e.url \in Range(served)
    /\ \A i, j \in DOMAIN processed :
          processed[i].acc = processed[j].acc => i = j
    /\ pc \in {"idle", "escaped"} =>
          {processed[i].acc : i \in DOMAIN processed} = collected

\* C32, as stated: the unit of every linked account is started again and
\* again, whatever the other units do.
C32_EveryAccountAgainAndAgain ==
    \A acc \in AccountRows :
        []<>(pc = "unit" /\ processed[Len(processed)].acc = acc)

\* C33: the poll loop does not end: after an exception that left the sweep
\* a new sweep collects its work, and work is collected again and again.
C33_LoopSweepsAgain ==
    /\ (pc = "escaped") ~> (pc = "collect")
    /\ []<>(pc = "collect")

\* A new sweep is about to start after one that an exception left, in the
\* unit of its second round.
C33_Witness ==
    /\ pc = "collect"
    /\ processed # <<>>
    /\ Len(processed) = Cardinality(collected)
    /\ processed[Len(processed)].outcome = "escaped"

====
